---- MODULE Spec2Model ----
(***************************************************************************)
(* A model of egemi's Tab (src/src/browser/tab.rs): the navigation state   *)
(* machine that owns the back/forward histories and the single in-flight   *)
(* load, the background tasks that the loaders spawn on the tokio runtime, *)
(* and the completion poll that turns a finished load into a document.     *)
(***************************************************************************)
EXTENDS Integers, Sequences, FiniteSets, TLC

(***************************************************************************)
(* Bounds of the model.                                                    *)
(***************************************************************************)
\* goto_url is not taken once back-history holds MaxHist entries.
MaxHist == 3
\* No operation that spawns a background task is taken once MaxTasks exist.
MaxTasks == 3

(***************************************************************************)
(* Values.                                                                 *)
(***************************************************************************)
\* BuiltinUrl::ABOUT / BuiltinUrl::CHANGELOG: url and embedded text.
ABOUT == [url |-> "about:egemi", text |-> <<"include_str!(welcome.gmi)">>]
CHANGELOG == [url |-> "about:changelog", text |-> <<"include_str!(changelog.gmi)">>]
\* BuiltinUrl::ALL, in table order.
ALL == <<ABOUT, CHANGELOG>>

\* URLs a user types, an embedding app passes or a link carries.
NavUrls == {"gemini://a/", "file:///b c", ABOUT.url, CHANGELOG.url}
\* hrefs of the documents' links: absolute URLs, or the external-open marker.
Hrefs == {"gemini://a/", "browser+https://x.example"}

\* Option::None for `document`; a document is the widget built, the parser
\* that produced its blocks and the text handed to that parser.
NoDoc == [widget |-> "None", parser |-> "", text |-> <<>>]

\* A background task with no result (still running, or its output dropped).
NoResult == [tag |-> "-", err |-> "-", status |-> "-", code |-> 0,
             ctype |-> "-", body |-> "-"]

\* network::Error variants, as matched exhaustively by Tab::render_err.
ErrorVariants == {"MissingContentType", "MimeParseError", "UnsupportedUrlScheme",
                  "InvalidUrl", "IoError", "UnsupportedContentType", "Unknown",
                  "ResponseTooBig", "UnrequestedContentType"}

\* Status: HttpStatus{code} or FileStatus(file status).
HttpCodes == {200, 404}
FileStatuses == {"Ok", "DirNeedsSlash", "NotFound", "TooBig"}

\* Option<Mime> content types: "None" is Option::None.
ContentTypes == {"None", "text/gemini", "text/gemini; charset=utf-8", "text/html",
                 "text/markdown", "text/plain", "image/png"}
Bodies == {"Text", "Bytes"}

\* What awaiting a finished JoinHandle can yield: Err(JoinError) when the task
\* panicked, Ok(Err(error)) or Ok(Ok(LoadedResource)).
JoinErrors == {[NoResult EXCEPT !.tag = "JoinError"]}
ErrResults == {[NoResult EXCEPT !.tag = "Err", !.err = e] : e \in ErrorVariants}
HttpResults == {[tag |-> "Ok", err |-> "-", status |-> "HttpStatus", code |-> c,
                 ctype |-> ct, body |-> b] :
                    c \in HttpCodes, ct \in ContentTypes, b \in Bodies}
FileResults == {[tag |-> "Ok", err |-> "-", status |-> s, code |-> 0,
                 ctype |-> ct, body |-> b] :
                    s \in FileStatuses, ct \in ContentTypes, b \in Bodies}
AllResults == JoinErrors \cup ErrResults \cup HttpResults \cup FileResults

\* The outputs drawn while exploring navigation: one of each shape.
NavResults ==
    JoinErrors
    \cup {r \in ErrResults : r.err = "UnrequestedContentType"}
    \cup {r \in HttpResults : r.code = 200 /\ r.ctype = "text/gemini" /\ r.body = "Text"}
    \cup {r \in FileResults : r.status = "Ok" /\ r.ctype = "text/markdown" /\ r.body = "Text"}

\* The URL navigated to while exploring the outputs of a load.
PollUrls == {"file:///b c"}

VARIABLES
    location,         \* Tab.location
    history,          \* Tab.history, most recent last
    forward_history,  \* Tab.forward_history, top last
    document,         \* Tab.document
    loading,          \* Tab.loading: 0 is None, else the id of the task whose JoinHandle is held
    tasks,            \* the tasks spawned on the runtime, by id
    doc_task,         \* the task whose output the document was rendered from (0: none)
    lastNav,          \* the task started by the most recent navigation (0: none)
    lastOp,           \* the last operation of the Tab that acted
    gem,              \* a run of gemtext::Options::parse over a text
    tree,             \* a run of the markdown tree builder over an event stream
    net               \* a run of a loader's fetch

vars == <<location, history, forward_history, document, loading, tasks,
          doc_task, lastNav, lastOp, gem, tree, net>>

\* The parser, the tree builder and the loaders when no run of theirs is modelled.
Idle == [pc |-> "idle"]

\* The Tab (and the runtime's tasks) as one value, for the operators below.
Tab == [location |-> location, history |-> history,
        forward_history |-> forward_history, document |-> document,
        loading |-> loading, tasks |-> tasks, doc_task |-> doc_task,
        lastNav |-> lastNav, joining |-> 0]

(***************************************************************************)
(* The background runtime: JoinHandle and spawn.                           *)
(***************************************************************************)
\* rt.spawn(fut): a new task, running, whose JoinHandle is returned.
spawn(ts, url) == Append(ts, [url |-> url, state |-> "running", result |-> NoResult])

\* JoinHandle::abort followed by the drop of the handle: a running task is
\* cancelled and its future (the URL with it) dropped, a task that had already
\* finished stays finished and its output is dropped with the handle. Either
\* way nothing of it is read again.
abort(ts, id) ==
    [ts EXCEPT ![id] = [url |-> "",
                        state |-> IF ts[id].state = "running" THEN "aborted" ELSE "dropped",
                        result |-> NoResult]]

\* JoinHandle::is_finished.
is_finished(ts, id) == ts[id].state = "finished"

\* A task still executing or holding an output nobody has taken or dropped.
Live(ts) == {i \in 1..Len(ts) : ts[i].state \in {"running", "finished"}}

(***************************************************************************)
(* Rendering.                                                              *)
(***************************************************************************)
\* Tab::set_gemtext: the non-strict parser always returns Ok(blocks).
set_gemtext(t, text) ==
    [t EXCEPT !.document = [widget |-> "GemtextWidget", parser |-> "gemtext", text |-> text],
              !.doc_task = t.joining]

\* Tab::set_plaintext: one Block::Text per line.
set_plaintext(t, text) ==
    [t EXCEPT !.document = [widget |-> "GemtextWidget", parser |-> "lines", text |-> text],
              !.doc_task = t.joining]

\* Tab::render_html
render_html(t, body) ==
    [t EXCEPT !.document = [widget |-> "MarkdownWidget", parser |-> "for_html", text |-> body],
              !.doc_task = t.joining]

\* Tab::render_markdown
render_markdown(t, body) ==
    [t EXCEPT !.document = [widget |-> "MarkdownWidget", parser |-> "for_md", text |-> body],
              !.doc_task = t.joining]

\* Tab::encoded_location: location.replace(" ", "%20"), on the model's URLs.
encoded_location(t) ==
    IF t.location = "file:///b c" THEN "file:///b%20c" ELSE t.location

\* render_err whose default arm renders nothing.
render_err_silent_default(t, err) ==
    IF err = "ResponseTooBig"
    THEN set_gemtext(t, <<"## Response too big\n\n", "{e:?}", err>>)
    ELSE IF err = "UnrequestedContentType"
    THEN set_gemtext(t, <<"## Unrequested Content-Type\n\n", "CODE_GUARD",
                          "\nContent-Type: ", "{mime}", "\n", "CODE_GUARD", "\n",
                          "=> browser+", encoded_location(t),
                          " Open in web browser">>)
    ELSE t

\* render_err whose default page, too, links to the tab's location.
render_err_location_everywhere(t, err) ==
    IF err = "ResponseTooBig"
    THEN set_gemtext(t, <<"## Response too big\n\n", "{e:?}", err>>)
    ELSE IF err = "UnrequestedContentType"
    THEN set_gemtext(t, <<"## Unrequested Content-Type\n\n", "CODE_GUARD",
                          "\nContent-Type: ", "{mime}", "\n", "CODE_GUARD", "\n",
                          "=> browser+", encoded_location(t),
                          " Open in web browser">>)
    ELSE set_gemtext(t, <<"{err:#?}", err, encoded_location(t)>>)

\* render_err that gives UnsupportedContentType the page of
\* UnrequestedContentType.
render_err_unsupported_linked(t, err) ==
    IF err = "ResponseTooBig"
    THEN set_gemtext(t, <<"## Response too big\n\n", "{e:?}", err>>)
    ELSE IF err \in {"UnrequestedContentType", "UnsupportedContentType"}
    THEN set_gemtext(t, <<"## Unrequested Content-Type\n\n", "CODE_GUARD",
                          "\nContent-Type: ", "{mime}", "\n", "CODE_GUARD", "\n",
                          "=> browser+", encoded_location(t),
                          " Open in web browser">>)
    ELSE set_gemtext(t, <<"{err:#?}", err>>)

\* Tab::render_err
render_err(t, err) ==
    IF err = "ResponseTooBig"
    THEN set_gemtext(t, <<"## Response too big\n\n", "{e:?}", err>>)
    ELSE IF err = "UnrequestedContentType"
    THEN set_gemtext(t, <<"## Unrequested Content-Type\n\n", "CODE_GUARD",
                          "\nContent-Type: ", "{mime}", "\n", "CODE_GUARD", "\n",
                          "=> browser+", encoded_location(t),
                          " Open in web browser">>)
    ELSE set_gemtext(t, <<"{err:#?}", err>>)

\* Status::ok for HttpStatus{code}.
HttpStatus_ok(code) == 200 <= code /\ code < 300

\* Status::ok for FileStatus: only Ok is a success.
FileStatus_ok(status) == status = "Ok"

\* Status::ok
Status_ok(loaded) ==
    IF loaded.status = "HttpStatus" THEN HttpStatus_ok(loaded.code)
    ELSE FileStatus_ok(loaded.status)

\* Mime::type_ on the model's content types.
type_(ct) == IF ct = "image/png" THEN "image" ELSE "text"

\* Mime::essence_str: type/subtype without parameters.
essence_str(ct) ==
    CASE ct \in {"text/gemini; charset=utf-8", "text/gemini; q=1"} -> "text/gemini"
      [] ct = "text/markdown; q=0.9" -> "text/markdown"
      [] ct = "text/plain; q=0.8" -> "text/plain"
      [] OTHER -> ct

\* check_tasks_content that does not assume text when the content type is absent.
check_tasks_content_absent_not_text(t, loaded) ==
    LET is_text == IF loaded.ctype = "None" THEN FALSE ELSE type_(loaded.ctype) = "text"
        content == IF loaded.ctype = "None" THEN "<unknown>" ELSE loaded.ctype
        body == IF loaded.body = "Bytes" THEN <<"binary data">> ELSE <<"{body}">>
        essence == IF loaded.ctype = "None" THEN "None" ELSE essence_str(loaded.ctype)
    IN  IF ~is_text
        THEN set_gemtext(t, <<"## Unsupported Content-Type\n\n", "Content-Type: ", content,
                              "\n", "is not yet supported.\n\n", "=> browser+",
                              encoded_location(t), " Open in browser?">>)
        ELSE IF essence = "text/gemini" THEN set_gemtext(t, body)
        ELSE IF essence = "text/html" THEN render_html(t, body)
        ELSE IF essence = "text/markdown" THEN render_markdown(t, body)
        ELSE set_plaintext(t, body)

\* Tab::check_tasks from `let is_text` on: dispatch on the content type.
check_tasks_content(t, loaded) ==
    LET is_text == IF loaded.ctype = "None" THEN TRUE ELSE type_(loaded.ctype) = "text"
        content == IF loaded.ctype = "None" THEN "<unknown>" ELSE loaded.ctype
        body == IF loaded.body = "Bytes" THEN <<"binary data">> ELSE <<"{body}">>
        essence == IF loaded.ctype = "None" THEN "None" ELSE essence_str(loaded.ctype)
    IN  IF ~is_text
        THEN set_gemtext(t, <<"## Unsupported Content-Type\n\n", "Content-Type: ", content,
                              "\n", "is not yet supported.\n\n", "=> browser+",
                              encoded_location(t), " Open in browser?">>)
        ELSE IF essence = "text/gemini" THEN set_gemtext(t, body)
        ELSE IF essence = "text/html" THEN render_html(t, body)
        ELSE IF essence = "text/markdown" THEN render_markdown(t, body)
        ELSE set_plaintext(t, body)

\* check_tasks_loaded that lets every file status through to the dispatch.
check_tasks_loaded_file_status_through(t, loaded) ==
    IF ~Status_ok(loaded)
    THEN IF loaded.status = "HttpStatus"
         THEN set_gemtext(t, <<"## HTTP ", ToString(loaded.code), "\n", "\nSee:",
                               "\n=> https://developer.mozilla.org/en-US/docs/Web/HTTP/Reference/Status">>)
         ELSE check_tasks_content(t, loaded)
    ELSE check_tasks_content(t, loaded)

\* Tab::check_tasks from `if !loaded.status.ok()` on.
check_tasks_loaded(t, loaded) ==
    IF ~Status_ok(loaded)
    THEN IF loaded.status = "HttpStatus"
         THEN set_gemtext(t, <<"## HTTP ", ToString(loaded.code), "\n", "\nSee:",
                               "\n=> https://developer.mozilla.org/en-US/docs/Web/HTTP/Reference/Status">>)
         ELSE IF loaded.status = "DirNeedsSlash"
         THEN check_tasks_content(t, loaded)
         ELSE set_gemtext(t, <<"## ", loaded.status>>)
    ELSE check_tasks_content(t, loaded)

\* check_tasks that leaves the handle of a task that panicked where it is.
check_tasks_keeps_panicked(t) ==
    IF t.loading = 0 THEN t
    ELSE IF ~is_finished(t.tasks, t.loading) THEN t
    ELSE IF t.tasks[t.loading].result.tag = "JoinError" THEN t
    ELSE LET id == t.loading
             result == t.tasks[id].result
             taken == [t EXCEPT !.loading = 0, !.joining = id,
                                !.tasks[id] = [url |-> "", state |-> "joined",
                                               result |-> NoResult]]
             done == IF result.tag = "Err" THEN render_err(taken, result.err)
                     ELSE check_tasks_loaded(taken, result)
         IN  [done EXCEPT !.joining = 0]

\* Tab::check_tasks
check_tasks(t) ==
    IF t.loading = 0 THEN t
    ELSE IF ~is_finished(t.tasks, t.loading) THEN t
    ELSE LET id == t.loading
             result == t.tasks[id].result
             taken == [t EXCEPT !.loading = 0, !.joining = id,
                                !.tasks[id] = [url |-> "", state |-> "joined",
                                               result |-> NoResult]]
             done == IF result.tag = "JoinError"
                     THEN set_gemtext(taken, <<"{err:#?}", "JoinError">>)
                     ELSE IF result.tag = "Err" THEN render_err(taken, result.err)
                     ELSE check_tasks_loaded(taken, result)
         IN  [done EXCEPT !.joining = 0]

(***************************************************************************)
(* Navigation.                                                             *)
(***************************************************************************)
\* Vec::pop's remainder.
pop(v) == SubSeq(v, 1, Len(v) - 1)

\* Vec::last, on a non-empty vector.
last(v) == v[Len(v)]

\* MultiLoader::fetch as Tab::load_url uses it: a task is spawned on the
\* runtime for the URL and its JoinHandle is stored in `loading`.
fetch(t, url) ==
    [t EXCEPT !.tasks = spawn(t.tasks, url),
              !.loading = Len(t.tasks) + 1,
              !.lastNav = Len(t.tasks) + 1]

\* load_url without the abort: the old handle is only dropped, which detaches
\* its task.
load_url_no_abort(t, url) ==
    LET pushed == [t EXCEPT !.loading = 0, !.history = Append(@, url),
                            !.location = url, !.lastNav = 0]
        builtin == {i \in 1..Len(ALL) : ALL[i].url = url}
    IN  IF builtin # {}
        THEN set_gemtext(pushed, ALL[CHOOSE i \in builtin : \A j \in builtin : i <= j].text)
        ELSE fetch(pushed, url)

\* load_url with the built-in pages served before the in-flight load is
\* looked at.
load_url_builtin_first(t, url) ==
    LET pushed == [t EXCEPT !.history = Append(@, url), !.location = url,
                            !.lastNav = 0]
        builtin == {i \in 1..Len(ALL) : ALL[i].url = url}
        taken == IF pushed.loading # 0
                 THEN [pushed EXCEPT !.tasks = abort(pushed.tasks, pushed.loading),
                                     !.loading = 0]
                 ELSE pushed
    IN  IF builtin # {}
        THEN set_gemtext(pushed, ALL[CHOOSE i \in builtin : \A j \in builtin : i <= j].text)
        ELSE fetch(taken, url)

\* load_url without the table of built-in pages.
load_url_no_builtin(t, url) ==
    LET taken == IF t.loading # 0
                 THEN [t EXCEPT !.tasks = abort(t.tasks, t.loading), !.loading = 0]
                 ELSE t
    IN  fetch([taken EXCEPT !.history = Append(@, url), !.location = url,
                            !.lastNav = 0],
              url)

\* load_url that makes the URL the location without pushing it on the history.
load_url_no_push(t, url) ==
    LET taken == IF t.loading # 0
                 THEN [t EXCEPT !.tasks = abort(t.tasks, t.loading), !.loading = 0]
                 ELSE t
        pushed == [taken EXCEPT !.location = url, !.lastNav = 0]
        builtin == {i \in 1..Len(ALL) : ALL[i].url = url}
    IN  IF builtin # {}
        THEN set_gemtext(pushed, ALL[CHOOSE i \in builtin : \A j \in builtin : i <= j].text)
        ELSE fetch(pushed, url)

\* Tab::load_url
load_url(t, url) ==
    LET taken == IF t.loading # 0
                 THEN [t EXCEPT !.tasks = abort(t.tasks, t.loading), !.loading = 0]
                 ELSE t
        pushed == [taken EXCEPT !.history = Append(@, url), !.location = url,
                                !.lastNav = 0]
        builtin == {i \in 1..Len(ALL) : ALL[i].url = url}
    IN  IF builtin # {}
        THEN set_gemtext(pushed, ALL[CHOOSE i \in builtin : \A j \in builtin : i <= j].text)
        ELSE fetch(pushed, url)

\* goto_url that clears forward-history whether or not the target is its top.
goto_url_always_clear(t, url) ==
    load_url([t EXCEPT !.forward_history = <<>>], url)

\* Tab::goto_url
goto_url(t, url) ==
    LET fw_history_matches ==
            IF t.forward_history = <<>> THEN FALSE ELSE last(t.forward_history) = url
    IN  load_url([t EXCEPT !.forward_history =
                                IF fw_history_matches THEN pop(@) ELSE <<>>],
                 url)

\* go_back that cancels the in-flight load before it checks the history.
go_back_abort_first(t) ==
    LET taken == IF t.loading # 0
                 THEN [t EXCEPT !.tasks = abort(t.tasks, t.loading), !.loading = 0]
                 ELSE t
    IN  IF Len(t.history) <= 1 THEN taken
        ELSE load_url([taken EXCEPT !.history = pop(pop(@)),
                                    !.forward_history = Append(@, last(t.history))],
                      last(pop(t.history)))

\* go_back that keeps the page it left in back-history.
go_back_keep_current(t) ==
    IF Len(t.history) <= 1 THEN t
    ELSE load_url([t EXCEPT !.history = pop(@),
                            !.forward_history = Append(@, last(t.history))],
                  last(pop(t.history)))

\* go_back that pops both entries and leaves it at that.
go_back_no_load(t) ==
    IF Len(t.history) <= 1 THEN t
    ELSE [t EXCEPT !.history = pop(pop(@)),
                   !.forward_history = Append(@, last(t.history))]

\* Tab::go_back
go_back(t) ==
    IF Len(t.history) <= 1 THEN t
    ELSE LET current_url == last(t.history)
             url == last(pop(t.history))
         IN  load_url([t EXCEPT !.history = pop(pop(@)),
                                !.forward_history = Append(@, current_url)],
                      url)

\* go_forward that goes through goto_url, as a fresh navigation.
go_forward_as_goto(t) ==
    IF t.forward_history = <<>> THEN t
    ELSE goto_url([t EXCEPT !.forward_history = pop(@)], last(t.forward_history))

\* go_forward that forgets the entries under the one it takes.
go_forward_drop_rest(t) ==
    IF t.forward_history = <<>> THEN t
    ELSE load_url([t EXCEPT !.forward_history = <<>>], last(t.forward_history))

\* Tab::go_forward
go_forward(t) ==
    IF t.forward_history = <<>> THEN t
    ELSE load_url([t EXCEPT !.forward_history = pop(@)], last(t.forward_history))

\* reload that navigates to the current URL without popping it first.
reload_no_pop(t) ==
    IF t.history = <<>> THEN t
    ELSE goto_url(t, last(t.history))

\* Tab::reload
reload(t) ==
    IF t.history = <<>> THEN t
    ELSE goto_url([t EXCEPT !.history = pop(@)], last(t.history))

\* str::strip_prefix("browser+") on the model's hrefs.
is_browser_link(href) == href = "browser+https://x.example"

\* Tab::link_clicked. A browser+ link is handed to the system browser. The
\* other hrefs of the model are absolute URLs: url_join of an absolute URL
\* is that URL, and when the location is no base goto_url gets the href as is.
link_clicked(t, href) ==
    IF is_browser_link(href) THEN t ELSE goto_url(t, href)

(***************************************************************************)
(* The state machine.                                                      *)
(***************************************************************************)
\* Tab::default(): empty histories, no document, nothing loading.
TabDefault ==
    /\ location = ""
    /\ history = <<>>
    /\ forward_history = <<>>
    /\ document = NoDoc
    /\ loading = 0
    /\ tasks = <<>>
    /\ doc_task = 0
    /\ lastNav = 0
    /\ lastOp = "default"

Init ==
    /\ TabDefault
    /\ gem = Idle
    /\ tree = Idle
    /\ net = Idle

\* The state after an operation that returned r.
Apply(r) ==
    /\ Len(r.tasks) <= MaxTasks
    /\ location' = r.location
    /\ history' = r.history
    /\ forward_history' = r.forward_history
    /\ document' = r.document
    /\ loading' = r.loading
    /\ tasks' = r.tasks
    /\ doc_task' = r.doc_task
    /\ lastNav' = r.lastNav
    /\ UNCHANGED <<gem, tree, net>>

\* Enter pressed in the location bar, or Browser::goto_url.
GotoUrl(url) ==
    /\ Len(history) < MaxHist
    /\ Apply(goto_url(Tab, url))
    /\ lastOp' = "goto_url"

\* The back button.
GoBack ==
    /\ Apply(go_back(Tab))
    /\ lastOp' = "go_back"

\* The forward button.
GoForward ==
    /\ Apply(go_forward(Tab))
    /\ lastOp' = "go_forward"

\* The reload button or shortcut.
Reload ==
    /\ Apply(reload(Tab))
    /\ lastOp' = "reload"

\* A link of the displayed document is activated: a navigation by goto_url,
\* unless the link is handed to the system browser.
LinkClicked(href) ==
    /\ document # NoDoc
    /\ Len(history) < MaxHist
    /\ Apply(link_clicked(Tab, href))
    /\ lastOp' = IF is_browser_link(href) THEN lastOp ELSE "goto_url"

\* Tab::show's poll, once per frame. lastOp records the polls that took a
\* finished handle.
CheckTasks ==
    /\ Apply(check_tasks(Tab))
    /\ lastOp' = IF loading # 0 /\ loading' = 0 THEN "check_tasks" ELSE lastOp

\* A background task runs to completion (or panics) with output r.
TaskFinish(id, r) ==
    /\ tasks[id].state = "running"
    /\ tasks' = [tasks EXCEPT ![id] = [url |-> tasks[id].url, state |-> "finished",
                                       result |-> r]]
    /\ UNCHANGED <<location, history, forward_history, document, loading,
                   doc_task, lastNav, lastOp, gem, tree, net>>

Next ==
    \/ \E url \in NavUrls : GotoUrl(url)
    \/ GoBack
    \/ GoForward
    \/ Reload
    \/ \E href \in Hrefs : LinkClicked(href)
    \/ CheckTasks
    \/ \E id \in 1..Len(tasks) : \E r \in NavResults : TaskFinish(id, r)

\* Every sequence of navigations, polls and task completions.
Spec == Init /\ [][Next]_vars

NextPoll ==
    \/ \E url \in PollUrls : GotoUrl(url)
    \/ GoBack
    \/ GoForward
    \/ Reload
    \/ CheckTasks
    \/ \E id \in 1..Len(tasks) : \E r \in AllResults : TaskFinish(id, r)

\* Every output a load can end with, polled on a tab that navigates one URL.
SpecPoll == Init /\ [][NextPoll]_vars

\* Tab::show calls check_tasks on every frame: a poll that has a finished
\* handle to take is not put off forever.
LiveUrls == {"gemini://a/", ABOUT.url}

NextLive ==
    \/ \E url \in LiveUrls : GotoUrl(url)
    \/ GoBack
    \/ GoForward
    \/ Reload
    \/ CheckTasks
    \/ \E id \in 1..Len(tasks) : \E r \in NavResults : TaskFinish(id, r)

SpecLive == Init /\ [][NextLive]_vars /\ WF_vars(CheckTasks)

(***************************************************************************)
(* Properties of the navigation state machine.                             *)
(***************************************************************************)
Terminated == {"aborted", "dropped", "joined"}

\* C1: the tab holds at most one in-flight load handle: the only task still
\* running or holding an untaken output is the one whose handle `loading`
\* holds, and every handle that was in flight when a later fetch started has
\* been aborted (or had been consumed by a poll).
C1_AtMostOneInFlight ==
    /\ Cardinality(Live(tasks)) <= 1
    /\ loading # 0 => loading \in Live(tasks)
    /\ \A id \in 1..Len(tasks) : id # loading => tasks[id].state \in Terminated

\* A fetch was started while another was in flight, and is now in flight.
C1_Witness ==
    /\ loading # 0
    /\ \E id \in 1..Len(tasks) : tasks[id].state = "aborted"

\* C2: whenever a completion poll has installed a document, the document
\* comes from the fetch that the most recent navigation started.
C2_NoStaleDelivery ==
    lastOp = "check_tasks" => doc_task # 0 /\ doc_task = lastNav

\* A poll installed a document after an earlier task, finished but not yet
\* polled, was superseded by a navigation.
C2_Witness ==
    /\ lastOp = "check_tasks"
    /\ doc_task = lastNav
    /\ \E id \in 1..Len(tasks) : tasks[id].state = "dropped"

BuiltinUrls == {ALL[i].url : i \in 1..Len(ALL)}

\* The step starts a fetch of url: a new task for it is running and its handle
\* is the one held.
StartsFetch(url) ==
    /\ Len(tasks') = Len(tasks) + 1
    /\ loading' = Len(tasks')
    /\ tasks'[loading'] = [url |-> url, state |-> "running", result |-> NoResult]

\* The step leaves no handle that was in flight un-aborted.
AbortsInFlight ==
    loading # 0 => tasks'[loading].state \in {"aborted", "dropped"}

\* The step serves the built-in page of url without the loader: no task is
\* spawned, nothing is in flight, the document is the parse of the embedded text.
ServesBuiltin(url) ==
    /\ Len(tasks') = Len(tasks)
    /\ loading' = 0
    /\ \E i \in 1..Len(ALL) :
          /\ ALL[i].url = url
          /\ document' = [widget |-> "GemtextWidget", parser |-> "gemtext",
                          text |-> ALL[i].text]

\* The step changes nothing of the tab or of the tasks.
NothingChanges ==
    UNCHANGED <<location, history, forward_history, document, loading, tasks, doc_task>>

A == "gemini://a/"
B == "file:///b c"

\* goto_url's effect on the histories and the location.
GotoEffect(url) ==
    /\ history' = Append(history, url)
    /\ location' = url
    /\ forward_history' =
          IF forward_history # <<>> /\ forward_history[Len(forward_history)] = url
          THEN SubSeq(forward_history, 1, Len(forward_history) - 1)
          ELSE <<>>

\* C3: goto(u) appends u to back-history and makes it the location; when u is
\* the top of forward-history exactly that entry is removed, otherwise
\* forward-history becomes empty. From back [A]: goto(B) gives [A,B] / [];
\* go_back gives [A] / [B]; goto(B) gives [A,B] / [].
C3_Goto ==
    [][/\ \A url \in NavUrls : GotoUrl(url) => GotoEffect(url)
       /\ (history = <<A>> /\ forward_history = <<>> /\ GotoUrl(B))
            => history' = <<A, B>> /\ forward_history' = <<>>
       /\ (history = <<A, B>> /\ forward_history = <<>> /\ GoBack)
            => history' = <<A>> /\ forward_history' = <<B>>
       /\ (history = <<A>> /\ forward_history = <<B>> /\ GotoUrl(B))
            => history' = <<A, B>> /\ forward_history' = <<>>]_vars

\* goto_url consumed the top of a forward-history and kept the entry under it.
C3_Witness ==
    /\ lastOp = "goto_url"
    /\ forward_history # <<>>
    /\ Len(history) >= 2

\* go_back's effect on the histories and the location, with two entries or more.
GoBackEffect ==
    /\ history' = SubSeq(history, 1, Len(history) - 1)
    /\ forward_history' = Append(forward_history, history[Len(history)])
    /\ location' = history[Len(history) - 1]

\* C4 as claimed: with two entries or more, go_back moves the current page to
\* forward-history, makes the previous entry current and starts a fetch for it.
C4_Original ==
    [][(Len(history) >= 2 /\ GoBack)
        => GoBackEffect /\ StartsFetch(history[Len(history) - 1])]_vars

\* C4 as amended: the same, except that when the previous entry is a built-in
\* URL no fetch is started and its embedded page is served.
C4_GoBack ==
    [][(Len(history) >= 2 /\ GoBack)
        => /\ GoBackEffect
           /\ IF history[Len(history) - 1] \in BuiltinUrls
              THEN ServesBuiltin(history[Len(history) - 1])
              ELSE StartsFetch(history[Len(history) - 1])]_vars

\* go_back went back from a history of three entries to a page it fetches.
C4_Witness ==
    /\ lastOp = "go_back"
    /\ Len(history) = 2
    /\ forward_history # <<>>
    /\ loading # 0
    /\ tasks[loading].url = location

\* C5: with zero or one entry in back-history go_back changes nothing; the
\* in-flight load is not aborted.
C5_GoBackNoop ==
    [][(Len(history) <= 1 /\ GoBack) => NothingChanges]_vars

\* go_back was tried on a tab with one entry while its load was in flight.
C5_Witness ==
    /\ lastOp = "go_back"
    /\ Len(history) = 1
    /\ loading # 0

\* go_forward's effect on the histories and the location.
GoForwardEffect ==
    /\ forward_history' = SubSeq(forward_history, 1, Len(forward_history) - 1)
    /\ history' = Append(history, forward_history[Len(forward_history)])
    /\ location' = forward_history[Len(forward_history)]

\* C6 as claimed: go_forward changes nothing on an empty forward-history and
\* otherwise moves its top to back-history and starts a fetch for it.
C6_Original ==
    [][/\ (forward_history = <<>> /\ GoForward) => NothingChanges
       /\ (forward_history # <<>> /\ GoForward)
            => GoForwardEffect
               /\ StartsFetch(forward_history[Len(forward_history)])]_vars

\* C6 as amended: the same, except that a built-in target is served from its
\* embedded page and no fetch is started.
C6_GoForward ==
    [][/\ (forward_history = <<>> /\ GoForward) => NothingChanges
       /\ (forward_history # <<>> /\ GoForward)
            => /\ GoForwardEffect
               /\ IF forward_history[Len(forward_history)] \in BuiltinUrls
                  THEN ServesBuiltin(forward_history[Len(forward_history)])
                  ELSE StartsFetch(forward_history[Len(forward_history)])]_vars

\* go_forward took the top of two forward entries and fetches it.
C6_Witness ==
    /\ lastOp = "go_forward"
    /\ forward_history # <<>>
    /\ loading # 0
    /\ tasks[loading].url = location

\* C7 as claimed: reload aborts the in-flight load, starts a fetch for the last
\* entry of back-history and leaves back-history as it was; with an empty
\* back-history it does nothing.
C7_Original ==
    [][/\ (history = <<>> /\ Reload) => NothingChanges
       /\ (history # <<>> /\ Reload)
            => /\ history' = history
               /\ AbortsInFlight
               /\ StartsFetch(history[Len(history)])]_vars

\* C7 as amended: the same, except that when the last entry is a built-in URL
\* its embedded page is served and no fetch is started.
C7_Reload ==
    [][/\ (history = <<>> /\ Reload) => NothingChanges
       /\ (history # <<>> /\ Reload)
            => /\ history' = history
               /\ AbortsInFlight
               /\ IF history[Len(history)] \in BuiltinUrls
                  THEN ServesBuiltin(history[Len(history)])
                  ELSE StartsFetch(history[Len(history)])]_vars

\* reload superseded an in-flight load of the current page by a new fetch.
C7_Witness ==
    /\ lastOp = "reload"
    /\ loading # 0
    /\ tasks[loading].url = history[Len(history)]
    /\ \E id \in 1..Len(tasks) : id # loading /\ tasks[id].state \in {"aborted", "dropped"}

\* C9: a poll that finds the in-flight handle finished consumes it (no handle
\* remains, the task's output is taken once) and installs a document rendered
\* from that task's output, whatever the output is.
C9_PollInstalls ==
    [][(loading # 0 /\ tasks[loading].state = "finished" /\ CheckTasks)
        => /\ loading' = 0
           /\ tasks'[loading] = [url |-> "", state |-> "joined", result |-> NoResult]
           /\ \A id \in 1..Len(tasks) : id # loading => tasks'[id] = tasks[id]
           /\ document' # NoDoc
           /\ document'.text # <<>>
           /\ doc_task' = loading]_vars

\* A poll rendered the page of a loader error of the default arm.
C9_Witness ==
    /\ lastOp = "check_tasks"
    /\ loading = 0
    /\ doc_task # 0
    /\ tasks[doc_task].state = "joined"
    /\ document = [widget |-> "GemtextWidget", parser |-> "gemtext",
                   text |-> <<"{err:#?}", "IoError">>]

\* The step is a navigation to url by goto_url, go_back, go_forward or reload.
NavigatesTo(url) ==
    \/ GotoUrl(url)
    \/ Len(history) >= 2 /\ history[Len(history) - 1] = url /\ GoBack
    \/ forward_history # <<>> /\ forward_history[Len(forward_history)] = url /\ GoForward
    \/ history # <<>> /\ history[Len(history)] = url /\ Reload

\* The histories after the step are those any target gives.
HistoriesAsForAnyTarget ==
    /\ (\E url \in NavUrls : GotoUrl(url)) => GotoEffect(location')
    /\ (Len(history) >= 2 /\ GoBack) => GoBackEffect
    /\ (forward_history # <<>> /\ GoForward) => GoForwardEffect
    /\ (history # <<>> /\ Reload) => history' = history

\* C10: a navigation (goto, go_back, go_forward, reload) to a built-in URL
\* spawns no task and leaves no load in flight, the load that was in flight
\* is aborted, the document is the parse of the embedded markup, and the
\* histories change as for any other target.
C10_BuiltinBypassesLoader ==
    [][\A url \in BuiltinUrls :
          NavigatesTo(url)
            => /\ ServesBuiltin(url)
               /\ AbortsInFlight
               /\ HistoriesAsForAnyTarget
               /\ location' = url]_vars

\* A navigation to a built-in page superseded a load that was in flight.
C10_Witness ==
    /\ lastOp \in {"goto_url", "go_back", "go_forward", "reload"}
    /\ location \in BuiltinUrls
    /\ loading = 0
    /\ document.text \in {ABOUT.text, CHANGELOG.text}
    /\ tasks # <<>>
    /\ tasks[Len(tasks)].state \in {"aborted", "dropped"}

\* C8: a non-empty forward-history implies a non-empty back-history.
C8_ForwardImpliesBack ==
    forward_history # <<>> => history # <<>>

\* go_back has moved an entry to forward-history.
C8_Witness ==
    /\ forward_history # <<>>
    /\ lastOp = "go_back"

(***************************************************************************)
(* Gemtext (src/src/gemtext.rs). A string is a sequence of characters, a   *)
(* text the sequence of its lines as value.lines() yields them.            *)
(***************************************************************************)
\* Lines of a parsed text.
MaxLines == 3
\* Longest run of '#' that opens a line.
MaxHashes == 257

\* u8: the values of Heading.level.
U8 == 256

TICK == "BACKTICK"
TAB == "TAB"
NBSP == "NBSP"
\* char::is_whitespace and the regex class \s, over the characters used here.
White_Space == {" ", TAB, NBSP}
CODE_GUARD == <<TICK, TICK, TICK>>
BLOCK_QUOTE == <<">">>

\* Option<T>: None, or Some(x) with the value at index 1.
None == <<>>
Some(x) == <<x>>

drop(s, n) == SubSeq(s, n + 1, Len(s))
starts_with(s, p) == Len(s) >= Len(p) /\ SubSeq(s, 1, Len(p)) = p
strip_prefix(s, p) == IF starts_with(s, p) THEN Some(drop(s, Len(p))) ELSE None

RECURSIVE trim_start(_)
trim_start(s) ==
    IF s # <<>> /\ Head(s) \in White_Space THEN trim_start(Tail(s)) ELSE s
RECURSIVE trim_end(_)
trim_end(s) ==
    IF s # <<>> /\ s[Len(s)] \in White_Space
    THEN trim_end(SubSeq(s, 1, Len(s) - 1)) ELSE s
trim(s) == trim_end(trim_start(s))

\* str::replacen: the first n occurrences of a character replaced.
replacen(s, from, to, n) ==
    [k \in 1..Len(s) |->
        IF s[k] = from /\ Cardinality({j \in 1..k : s[j] = from}) <= n
        THEN to ELSE s[k]]

\* What a greedy class repetition (#+, [ ]+, \s+) takes at the start of s:
\* the length of the longest prefix whose characters are all in cs.
run(s, cs) == Cardinality({k \in 1..Len(s) : \A j \in 1..k : s[j] \in cs})
\* The same for a negated class (\S+).
run_not(s, cs) == Cardinality({k \in 1..Len(s) : \A j \in 1..k : s[j] \notin cs})

Block_Heading(level, text) == [block |-> "Heading", level |-> level, text |-> text]
Block_Text(text) == [block |-> "Text", text |-> text]
Block_ListItem(text) == [block |-> "ListItem", text |-> text]
Block_BlockQuote(lines) ==
    [block |-> "BlockQuote", lines |-> [k \in 1..Len(lines) |-> Block_Text(lines[k])]]
Block_CodeFence(meta, lines) == [block |-> "CodeFence", meta |-> meta, lines |-> lines]
Block_Link(url, text) == [block |-> "Link", url |-> url, text |-> text]

\* HeaderLine::parse: ^(?P<hashes>#+)([ ]+)(?P<heading>.*)$, level: hashes.len() as u8.
HeaderLine_parse(value) ==
    LET hashes == run(value, {"#"})
        rest == drop(value, hashes)
        spaces == run(rest, {" "})
    IN  IF hashes >= 1 /\ spaces >= 1
        THEN Some([level |-> hashes % U8, text |-> drop(rest, spaces)])
        ELSE None

\* LinkLine::parse that keeps the trailing whitespace of the text.
LinkLine_parse_untrimmed(value) ==
    LET r0 == drop(value, 2)
        ws == run(r0, White_Space)
        r1 == drop(r0, ws)
        url == run_not(r1, White_Space)
        r2 == drop(r1, url)
    IN  IF starts_with(value, <<"=", ">">>) /\ ws >= 1 /\ url >= 1
        THEN Some([url |-> SubSeq(r1, 1, url),
                   text |-> drop(r2, run(r2, White_Space))])
        ELSE None

\* LinkLine::parse: ^=>\s+(?P<url>\S+)(\s+(?P<text>\S.*?))?\s*$, text "" when
\* the group did not take part.
LinkLine_parse(value) ==
    LET r0 == drop(value, 2)
        ws == run(r0, White_Space)
        r1 == drop(r0, ws)
        url == run_not(r1, White_Space)
        r2 == drop(r1, url)
    IN  IF starts_with(value, <<"=", ">">>) /\ ws >= 1 /\ url >= 1
        THEN Some([url |-> SubSeq(r1, 1, url),
                   text |-> trim_end(drop(r2, run(r2, White_Space)))])
        ELSE None

\* ListItem::parse: ^\s?\*\s(?P<text>.+?)\s*$; the lazy text is the shortest
\* non-empty prefix that leaves only whitespace.
ListItem_parse(value) ==
    LET lead == IF value # <<>> /\ Head(value) \in White_Space THEN 1 ELSE 0
        r1 == drop(value, lead)
        r2 == drop(r1, 2)
    IN  IF Len(r1) >= 3 /\ r1[1] = "*" /\ r1[2] \in White_Space
        THEN Some([text |-> IF trim_end(r2) = <<>> THEN SubSeq(r2, 1, 1)
                            ELSE trim_end(r2)])
        ELSE None

\* The locals of Options::parse before the first line of value.
parse_begin(self, value) ==
    [pc |-> "lines", strict |-> self, text |-> value, i |-> 1,
     code |-> None, quote |-> None, blocks |-> <<>>, result |-> "none"]

\* A code guard line that reports an end guard with meta whatever self.strict is.
parse_guard_always_strict(st, meta) ==
    IF st.code # None
    THEN IF meta # <<>>
         THEN [st EXCEPT !.code = None, !.pc = "done", !.result = "Err"]
         ELSE [st EXCEPT !.code = None,
                         !.blocks = Append(@, Block_CodeFence(st.code[1].meta,
                                                              st.code[1].lines))]
    ELSE [st EXCEPT !.code = Some([meta |-> meta, lines |-> <<>>])]

\* A code guard line that, when strict, reports every end guard.
parse_guard_strict_any_end(st, meta) ==
    IF st.code # None
    THEN IF st.strict
         THEN [st EXCEPT !.code = None, !.pc = "done", !.result = "Err"]
         ELSE [st EXCEPT !.code = None,
                         !.blocks = Append(@, Block_CodeFence(st.code[1].meta,
                                                              st.code[1].lines))]
    ELSE [st EXCEPT !.code = Some([meta |-> meta, lines |-> <<>>])]

\* A line that starts with CODE_GUARD; meta is the trimmed rest of the line.
parse_guard(st, meta) ==
    IF st.code # None
    THEN IF meta # <<>> /\ st.strict
         THEN [st EXCEPT !.code = None, !.pc = "done", !.result = "Err"]
         ELSE [st EXCEPT !.code = None,
                         !.blocks = Append(@, Block_CodeFence(st.code[1].meta,
                                                              st.code[1].lines))]
    ELSE [st EXCEPT !.code = Some([meta |-> meta, lines |-> <<>>])]

\* A line inside a code fence.
parse_code_line(st, line) ==
    LET kept == IF starts_with(line, <<" ">>) THEN replacen(line, " ", NBSP, 5)
                ELSE line
    IN  [st EXCEPT !.code = Some([meta |-> st.code[1].meta,
                                  lines |-> Append(st.code[1].lines, kept)])]

\* A quote line that starts the pending quote over.
parse_quote_restart(st, text) ==
    [st EXCEPT !.quote = Some(<<trim(text)>>)]

\* A line that starts with BLOCK_QUOTE; text is the rest of the line.
parse_quote(st, text) ==
    IF st.quote # None
    THEN [st EXCEPT !.quote = Some(Append(st.quote[1], trim(text)))]
    ELSE [st EXCEPT !.quote = Some(<<trim(text)>>)]

\* Any other line: the pending quote is pushed, then the line's own block.
parse_plain(st, line) ==
    LET flushed == IF st.quote # None
                   THEN Append(st.blocks, Block_BlockQuote(st.quote[1]))
                   ELSE st.blocks
        header == HeaderLine_parse(line)
        link == LinkLine_parse(line)
        item == ListItem_parse(line)
        block == IF header # None THEN Block_Heading(header[1].level, header[1].text)
                 ELSE IF link # None THEN Block_Link(link[1].url, link[1].text)
                 ELSE IF item # None THEN Block_ListItem(item[1].text)
                 ELSE Block_Text(line)
    IN  [st EXCEPT !.quote = None, !.blocks = Append(flushed, block)]

\* The body of the loop of Options::parse for the line at st.i.
parse_line(st) ==
    LET line == st.text[st.i]
        next == [st EXCEPT !.i = @ + 1]
    IN  IF strip_prefix(line, CODE_GUARD) # None
        THEN parse_guard(next, trim(strip_prefix(line, CODE_GUARD)[1]))
        ELSE IF st.code # None THEN parse_code_line(next, line)
        ELSE IF strip_prefix(line, BLOCK_QUOTE) # None
        THEN parse_quote(next, strip_prefix(line, BLOCK_QUOTE)[1])
        ELSE parse_plain(next, line)

\* parse_end that drops the blocks still open after the last line.
parse_end_drop_open(st) ==
    [st EXCEPT !.code = None, !.quote = None, !.pc = "done", !.result = "Ok"]

\* After the last line: the unclosed code fence, then the unclosed quote, and Ok.
parse_end(st) ==
    LET coded == IF st.code # None
                 THEN Append(st.blocks, Block_CodeFence(st.code[1].meta,
                                                        st.code[1].lines))
                 ELSE st.blocks
        quoted == IF st.quote # None
                  THEN Append(coded, Block_BlockQuote(st.quote[1]))
                  ELSE coded
    IN  [st EXCEPT !.code = None, !.quote = None, !.blocks = quoted,
                   !.pc = "done", !.result = "Ok"]

\* Options::parse as a function: the state it returns in.
RECURSIVE parse_run(_)
parse_run(st) ==
    IF st.pc = "done" THEN st
    ELSE IF st.i <= Len(st.text) THEN parse_run(parse_line(st))
    ELSE parse_run(parse_end(st))

parse(self, value) == parse_run(parse_begin(self, value))

\* The loop of Options::parse takes the next line.
ParseLine ==
    /\ gem.pc = "lines"
    /\ gem.i <= Len(gem.text)
    /\ gem' = parse_line(gem)
    /\ UNCHANGED <<location, history, forward_history, document, loading, tasks,
                   doc_task, lastNav, lastOp, tree, net>>

\* The lines are exhausted and Options::parse returns.
ParseEnd ==
    /\ gem.pc = "lines"
    /\ gem.i > Len(gem.text)
    /\ gem' = parse_end(gem)
    /\ UNCHANGED <<location, history, forward_history, document, loading, tasks,
                   doc_task, lastNav, lastOp, tree, net>>

NextParse == ParseLine \/ ParseEnd

\* The lines the texts of SpecParse are made of.
FENCE == CODE_GUARD
GemLines ==
    { FENCE, CODE_GUARD \o <<"r", "s">>, <<" ", "c", " ", " ">>,
      <<">", " ", "q", " ">>, <<"#", " ", "h">>, <<"=", ">", " ", "u">>,
      <<"*", " ", "i">>, <<"t">> }

\* All texts of at most n lines.
RECURSIVE Texts(_)
Texts(n) ==
    IF n = 0 THEN {<<>>}
    ELSE Texts(n - 1) \cup {Append(t, l) : t \in {u \in Texts(n - 1) : Len(u) = n - 1},
                                          l \in GemLines}

\* Options::parse, strict or not, over every text of at most MaxLines lines.
InitParse ==
    /\ TabDefault
    /\ tree = Idle
    /\ net = Idle
    /\ gem \in {parse_begin(self, value) : self \in BOOLEAN, value \in Texts(MaxLines)}

SpecParse == InitParse /\ [][NextParse]_vars

\* C11: for every input text the parser, when not strict, returns a sequence
\* of blocks: it never returns an error, and it has a step to take until it
\* has returned.
C11_NonStrictNeverFails ==
    ~gem.strict =>
        /\ gem.result # "Err"
        /\ gem.pc = "lines" => ENABLED NextParse
        /\ gem.pc = "done" => gem.result = "Ok"

\* A non-strict parse has returned blocks for a text that the strict parse rejects.
C11_Witness ==
    /\ gem.pc = "done"
    /\ ~gem.strict
    /\ gem.result = "Ok"
    /\ parse(TRUE, gem.text).result = "Err"

\* The loop of Options::parse has ended and the function returns Ok.
ReturnsOk == gem.pc = "lines" /\ gem'.pc = "done" /\ gem'.result = "Ok"

\* The text has a code guard line that no later guard line closes.
LastFenceUnterminated(text) ==
    Cardinality({k \in 1..Len(text) : starts_with(text[k], CODE_GUARD)}) % 2 = 1

\* C12: a code fence or a block quote still open when the input ends is
\* emitted as a block holding exactly the lines accumulated so far, and a
\* text whose last code fence is unterminated parses to the same blocks as
\* that text with a closing fence line appended.
C12_OpenBlocksEmitted ==
    [][ReturnsOk =>
        LET open_code == IF gem.code # None
                         THEN <<Block_CodeFence(gem.code[1].meta, gem.code[1].lines)>>
                         ELSE <<>>
            open_quote == IF gem.quote # None
                          THEN <<Block_BlockQuote(gem.quote[1])>>
                          ELSE <<>>
        IN  /\ gem'.blocks = gem.blocks \o open_code \o open_quote
            /\ LastFenceUnterminated(gem.text) =>
                  /\ gem.code # None
                  /\ parse(gem.strict, Append(gem.text, FENCE)).result = "Ok"
                  /\ parse(gem.strict, Append(gem.text, FENCE)).blocks = gem'.blocks
    ]_vars

\* A fence line and one line of code: a single code block with that line.
C12_Witness ==
    /\ gem.pc = "done"
    /\ gem.text = <<FENCE, <<"t">>>>
    /\ gem.blocks = <<Block_CodeFence(<<>>, << <<"t">> >>)>>

\* The lines a sequence of blocks holds: one for a Heading, Link, ListItem or
\* Text block, the lines of a BlockQuote, the lines of a CodeFence.
RECURSIVE lines_held(_)
lines_held(blocks) ==
    IF blocks = <<>> THEN 0
    ELSE (IF Head(blocks).block \in {"BlockQuote", "CodeFence"}
          THEN Len(Head(blocks).lines)
          ELSE 1) + lines_held(Tail(blocks))

\* The code guard lines among the first n lines of text.
guard_lines(text, n) ==
    Cardinality({k \in 1..n : strip_prefix(text[k], CODE_GUARD) # None})

\* The lines held by the code fence and the quote that are still open.
lines_pending(st) ==
    (IF st.code # None THEN Len(st.code[1].lines) ELSE 0)
    + (IF st.quote # None THEN Len(st.quote[1]) ELSE 0)

\* C38: the parser, when not strict, loses no line: the lines taken so far
\* are as many as the Heading, Link, ListItem and Text blocks, plus the lines
\* of the BlockQuote blocks, plus the lines of the CodeFence blocks, plus the
\* code guard lines, plus the lines of the blocks still open; once it has
\* returned nothing is open and the count is that of the whole text.
C38_NoLineLost ==
    ~gem.strict =>
        /\ gem.i - 1 = lines_held(gem.blocks) + lines_pending(gem)
                       + guard_lines(gem.text, gem.i - 1)
        /\ gem.pc = "done" =>
              /\ gem.i - 1 = Len(gem.text)
              /\ lines_pending(gem) = 0
              /\ Len(gem.text) = lines_held(gem.blocks)
                                 + guard_lines(gem.text, Len(gem.text))

\* A quote line, a guard line and a line of code: a code block of one line and
\* a quote of one line, from three lines.
C38_Witness ==
    /\ gem.pc = "done"
    /\ ~gem.strict
    /\ Len(gem.text) = 3
    /\ gem.text[3] = <<"t">>
    /\ gem.blocks = <<Block_CodeFence(<<>>, << <<"t">> >>), Block_BlockQuote(<< <<"q">> >>)>>

\* The number of lines at the start of text that start with BLOCK_QUOTE.
RECURSIVE leading_quotes(_)
leading_quotes(text) ==
    IF text # <<>> /\ starts_with(Head(text), BLOCK_QUOTE)
    THEN 1 + leading_quotes(Tail(text))
    ELSE 0

\* The parse returned blocks for a text that starts with quote lines and
\* goes on with a line that is not a quote line.
QuoteThenOther ==
    /\ gem.pc = "done"
    /\ gem.result = "Ok"
    /\ leading_quotes(gem.text) \in 1..(Len(gem.text) - 1)

\* C25: the block quote that opens a text is emitted at the first line that
\* is not a quote line, a code guard line included: it is the first block,
\* ahead of the block of every later line, and it holds the quote lines
\* before that line and no quote line after it.
C25_QuoteBeforeLaterBlocks ==
    QuoteThenOther =>
        /\ gem.blocks # <<>>
        /\ gem.blocks[1] =
              Block_BlockQuote([j \in 1..leading_quotes(gem.text) |->
                                   trim(drop(gem.text[j], Len(BLOCK_QUOTE)))])

\* The loop takes a line of an open code fence that is not a guard line.
TakesCodeLine ==
    /\ gem.pc = "lines"
    /\ gem.i <= Len(gem.text)
    /\ gem.code # None
    /\ ~starts_with(gem.text[gem.i], CODE_GUARD)
    /\ gem'.i = gem.i + 1

\* The line with its leading spaces, the first five at most, made NBSP.
LeadingSpacesKept(line) ==
    [k \in 1..Len(line) |->
        IF k <= run(line, {" "}) /\ k <= 5 THEN NBSP ELSE line[k]]

\* C26: a line inside a code fence is stored with its leading spaces, at most
\* the first five, replaced by non-breaking spaces and with every other
\* character, a space after the first non-space character included, as it
\* is; a line that does not start with a space is stored unchanged.
C26_OnlyLeadingSpaces ==
    [][TakesCodeLine =>
          /\ gem'.code # None
          /\ gem'.code[1].lines =
                Append(gem.code[1].lines, LeadingSpacesKept(gem.text[gem.i]))]_vars

\* Line k of text is a guard line that closes a code fence.
ClosesFence(text, k) ==
    /\ starts_with(text[k], CODE_GUARD)
    /\ Cardinality({j \in 1..(k - 1) : starts_with(text[j], CODE_GUARD)}) % 2 = 1

\* Some closing guard line of text carries text after the marker.
ClosingGuardWithMeta(text) ==
    \E k \in 1..Len(text) :
        ClosesFence(text, k) /\ trim(drop(text[k], Len(CODE_GUARD))) # <<>>

\* The text with what follows the marker removed from every closing guard line.
BareClosingGuards(text) ==
    [k \in 1..Len(text) |-> IF ClosesFence(text, k) THEN CODE_GUARD ELSE text[k]]

\* C27: the strict and the non-strict parse of a text return the same blocks
\* unless a closing guard line of the text carries text after the marker;
\* then the strict parse returns an error, and the non-strict parse closes
\* the block and drops that text: it returns the blocks both return for the
\* text with bare closing guards.
C27_StrictAgrees ==
    gem.pc = "done" =>
        LET strict == parse(TRUE, gem.text)
            lenient == parse(FALSE, gem.text)
            bare == parse(TRUE, BareClosingGuards(gem.text))
        IN  /\ gem.result = (IF gem.strict THEN strict.result ELSE lenient.result)
            /\ gem.result = "Ok" => gem.blocks = lenient.blocks
            /\ lenient.result = "Ok"
            /\ IF ClosingGuardWithMeta(gem.text)
               THEN /\ strict.result = "Err"
                    /\ bare.result = "Ok"
                    /\ lenient.blocks = bare.blocks
               ELSE /\ strict.result = "Ok"
                    /\ strict.blocks = lenient.blocks

\* The strict parse has returned an error for a code fence of one line
\* whose closing guard line carries text.
C27_Witness ==
    /\ gem.pc = "done"
    /\ gem.strict
    /\ gem.result = "Err"
    /\ gem.text = <<FENCE, <<"t">>, CODE_GUARD \o <<"r", "s">>>>
    /\ parse(FALSE, gem.text).blocks = <<Block_CodeFence(<<>>, << <<"t">> >>)>>

(***************************************************************************)
(* Options::parse over texts that end in one heading line or link line.    *)
(***************************************************************************)
Hashes(n) == [j \in 1..n |-> "#"]

\* A run of '#', one or two spaces, and a text that starts with no space.
HeadingLines ==
    { Hashes(n) \o sp \o t : n \in 1..MaxHashes,
                             sp \in {<<" ">>, <<" ", " ">>},
                             t \in {<<>>, <<"x", " ">>} }

LinkSeps == {<<" ">>, <<TAB>>, <<" ", " ">>}
LinkUrls == {<<"u">>, <<"g", ":", "/">>}
LinkTexts == {<<>>, <<"t">>, <<"t", " ", "x">>}
LinkTrails == {<<>>, <<" ">>, <<TAB, " ">>}

\* '=>', whitespace, a URL, and then either only whitespace (text empty) or
\* whitespace, a display text and trailing whitespace.
LinkParts ==
    { p \in [ws : LinkSeps, url : LinkUrls, sep : LinkSeps, text : LinkTexts,
             trail : LinkTrails] : TRUE }

LinkLine(p) == <<"=", ">">> \o p.ws \o p.url \o p.sep \o p.text \o p.trail
LinkLines == { LinkLine(p) : p \in LinkParts }

\* Lines that are close to a heading or a link and are neither.
PlainLines ==
    { <<"=", ">", "u">>, <<"=", ">", " ">>, <<"#", "x">>, <<"#", TAB, "x">> }

\* What precedes the line: nothing, a quoted line, an open code fence, a
\* closed code fence.
Contexts == { <<>>, << <<">", "q">> >>, <<FENCE>>, <<FENCE, FENCE>> }

InitLine ==
    /\ TabDefault
    /\ tree = Idle
    /\ net = Idle
    /\ gem \in { parse_begin(FALSE, c \o <<l>>) :
                    c \in Contexts, l \in HeadingLines \cup LinkLines \cup PlainLines }

SpecLine == InitLine /\ [][NextParse]_vars

\* The loop of Options::parse takes a line outside a code fence.
TakesLineOutsideCode ==
    /\ gem.pc = "lines"
    /\ gem.i <= Len(gem.text)
    /\ gem'.i = gem.i + 1
    /\ gem.code = None
    /\ gem'.code = None

\* The blocks before the line's own block: the pending quote is closed first.
BlocksBeforeLine ==
    gem.blocks \o (IF gem.quote # None THEN <<Block_BlockQuote(gem.quote[1])>>
                   ELSE <<>>)

\* C13: a line outside code blocks and quotes made of n >= 1 '#', at least
\* one space and a text yields a Heading of level n with the text after the
\* spaces, and every Heading emitted has a level in 1..255.
C13_HeadingLevel ==
    [][TakesLineOutsideCode =>
        LET line == gem.text[gem.i]
            n == run(line, {"#"})
            k == run(drop(line, n), {" "})
        IN  (n >= 1 /\ k >= 1) =>
              /\ gem'.blocks = Append(BlocksBeforeLine,
                                      Block_Heading(n, drop(line, n + k)))
              /\ \A j \in 1..Len(gem'.blocks) :
                    gem'.blocks[j].block = "Heading" =>
                        gem'.blocks[j].level \in 1..(U8 - 1)
    ]_vars

\* C14: a line made of '=>', whitespace and a non-whitespace URL yields
\* exactly one Link block with that URL, whose text is the rest of the line
\* after the separating whitespace without its trailing whitespace, and is
\* empty when there is no such rest.
C14_LinkLine ==
    [][TakesLineOutsideCode =>
        \A p \in LinkParts :
            gem.text[gem.i] = LinkLine(p) =>
                gem'.blocks = Append(BlocksBeforeLine, Block_Link(p.url, p.text))
    ]_vars

\* A link line with tabs, a two-word text and trailing whitespace was parsed
\* after a quoted line.
C14_Witness ==
    /\ gem.pc = "done"
    /\ Len(gem.text) = 2
    /\ gem.text[2] = <<"=", ">", TAB, "g", ":", "/", " ", " ", "t", " ", "x", TAB, " ">>
    /\ gem.blocks[2] = Block_Link(<<"g", ":", "/">>, <<"t", " ", "x">>)

(***************************************************************************)
(* The markdown tree builder (src/src/browser/widgets/markdown/tree.rs)    *)
(* over the events of pulldown_cmark. A string is a sequence of pieces; a  *)
(* parser over the stream ev that starts at index i returns what it built  *)
(* as out and the index of the next event as i.                            *)
(***************************************************************************)
\* Events of a parsed stream.
MaxEvents == 5

Start(tag) == [e |-> "Start", tag |-> tag]
StartHeading(level) == [e |-> "Start", tag |-> "Heading", level |-> level]
StartCodeBlock(kind) == [e |-> "Start", tag |-> "CodeBlock", kind |-> kind]
StartList(start_info) == [e |-> "Start", tag |-> "List", start_num |-> start_info]
StartLink(dest_url, title, id) ==
    [e |-> "Start", tag |-> "Link", dest_url |-> dest_url, title |-> title, id |-> id]
StartImage(dest_url, title, id) ==
    [e |-> "Start", tag |-> "Image", dest_url |-> dest_url, title |-> title, id |-> id]
End(tag) == [e |-> "End", tag |-> tag]
Text(text) == [e |-> "Text", text |-> text]
Code(text) == [e |-> "Code", text |-> text]
Rule == [e |-> "Rule"]
SoftBreak == [e |-> "SoftBreak"]
HardBreak == [e |-> "HardBreak"]

Inline_Text(text) == [inline |-> "Text", text |-> text]
Inline_Code(text) == [inline |-> "Code", text |-> text]
Link(href, text) == [href |-> href, text |-> text]
Image(src, alt, title) == [src |-> src, alt |-> alt, title |-> title]
Inline_Link(link) == [inline |-> "Link", link |-> link]
Inline_Image(image) == [inline |-> "Image", image |-> image]
Inline_LinkedImage(link, image) ==
    [inline |-> "LinkedImage", link |-> link, image |-> image]
Inline_Styled(style, parts) == [inline |-> "Styled", style |-> style, parts |-> parts]

Tree_Heading(level, text) == [block |-> "Heading", level |-> level, text |-> text]
Tree_CodeBlock(fenced, text) == [block |-> "CodeBlock", fenced |-> fenced, text |-> text]
Tree_BlockQuote(blocks) == [block |-> "BlockQuote", blocks |-> blocks]
Tree_P(parts) == [block |-> "P", parts |-> parts]
Tree_PseudoP(parts) == [block |-> "PseudoP", parts |-> parts]
Tree_List(start_num, blocks) ==
    [block |-> "List", start_num |-> start_num, blocks |-> blocks]
Tree_ListItem(blocks) == [block |-> "ListItem", blocks |-> blocks]
Tree_Hr == [block |-> "Hr"]

\* format!("...{x:?}..."): the message with the Debug form of x.
Debug(msg, x) == <<msg, ToString(x)>>

\* impl From<String> for Block.
Block_from(value) == Tree_P(<<Inline_Text(value)>>)

\* push_inline that starts a pseudo-paragraph for every element.
push_inline_always_new(blocks, element) ==
    Append(blocks, Tree_PseudoP(<<element>>))

\* PushInline for Vec<Block>.
push_inline(blocks, element) ==
    IF blocks # <<>> /\ blocks[Len(blocks)].block = "PseudoP"
    THEN [blocks EXCEPT ![Len(blocks)].parts = Append(@, element)]
    ELSE Append(blocks, Tree_PseudoP(<<element>>))

\* for inline in ... { blocks.push_inline(inline) }
RECURSIVE push_inlines(_, _)
push_inlines(blocks, inlines) ==
    IF inlines = <<>> THEN blocks
    ELSE push_inlines(push_inline(blocks, Head(inlines)), Tail(inlines))

\* strings.join(sep) over a sequence of strings.
RECURSIVE join(_, _)
join(strings, sep) ==
    IF strings = <<>> THEN <<>>
    ELSE IF Len(strings) = 1 THEN strings[1]
    ELSE strings[1] \o sep \o join(Tail(strings), sep)

\* Inline::extract_text.
RECURSIVE extract_text(_)
extract_text(self) ==
    CASE self.inline \in {"Text", "Code"} -> self.text
      [] self.inline = "Link" -> self.link.text
      [] self.inline \in {"Image", "LinkedImage"} -> self.image.src
      [] self.inline = "Styled" ->
            join([k \in 1..Len(self.parts) |-> extract_text(self.parts[k])], <<" ">>)

\* parse_link's match that turns an inner image into a plain Link.
link_part_image_as_link(part, dest_url) ==
    CASE part.inline = "Text" -> Inline_Link(Link(dest_url, part.text))
      [] part.inline \in {"Code", "Styled", "Image"} ->
            Inline_Link(Link(dest_url, extract_text(part)))
      [] part.inline \in {"LinkedImage", "Link"} ->
            Inline_Link(Link(dest_url, Debug("Unexpected within link: ", part)))

\* parse_link's match that passes a styled part on as it is.
link_part_keep_styled(part, dest_url) ==
    CASE part.inline = "Text" -> Inline_Link(Link(dest_url, part.text))
      [] part.inline = "Code" -> Inline_Link(Link(dest_url, extract_text(part)))
      [] part.inline = "Styled" -> part
      [] part.inline = "Image" ->
            Inline_LinkedImage(Link(dest_url, <<>>), part.image)
      [] part.inline \in {"LinkedImage", "Link"} ->
            Inline_Link(Link(dest_url, Debug("Unexpected within link: ", part)))

\* The match of parse_link: what one inner part of a link becomes.
link_part(part, dest_url) ==
    CASE part.inline = "Text" -> Inline_Link(Link(dest_url, part.text))
      [] part.inline \in {"Code", "Styled"} ->
            Inline_Link(Link(dest_url, extract_text(part)))
      [] part.inline = "Image" ->
            Inline_LinkedImage(Link(dest_url, <<>>), part.image)
      [] part.inline \in {"LinkedImage", "Link"} ->
            Inline_Link(Link(dest_url, Debug("Unexpected within link: ", part)))

\* The alt text parse_image derives from the parts inside the image.
image_alt(parts, dest_url, id) ==
    LET alt == IF parts = <<>> THEN <<>>
               ELSE IF Len(parts) > 1
               THEN Debug("(Error: Too many inline elements: ", parts)
               ELSE IF parts[1].inline = "Text" THEN parts[1].text
               ELSE Debug("(Error: Unexpected inline element in image: ", parts[1])
        alt_or_id == IF alt = <<>> THEN id ELSE alt
    IN  IF alt_or_id = <<>> THEN dest_url ELSE alt_or_id

\* The loop of parse_heading: the text of the Text events up to End(Heading).
RECURSIVE heading_text(_, _, _)
heading_text(ev, i, text) ==
    IF i > Len(ev) THEN [out |-> text, i |-> i]
    ELSE IF ev[i].e = "End" /\ ev[i].tag = "Heading" THEN [out |-> text, i |-> i + 1]
    ELSE IF ev[i].e = "Text" THEN heading_text(ev, i + 1, text \o ev[i].text)
    ELSE heading_text(ev, i + 1, text)

parse_heading(ev, i, level) ==
    LET r == heading_text(ev, i, <<>>)
    IN  [out |-> Tree_Heading(level, r.out), i |-> r.i]

\* The loop of parse_code: the strings up to End(CodeBlock).
RECURSIVE code_strings(_, _, _)
code_strings(ev, i, strings) ==
    IF i > Len(ev) THEN [out |-> strings, i |-> i]
    ELSE IF ev[i].e = "End" /\ ev[i].tag = "CodeBlock" THEN [out |-> strings, i |-> i + 1]
    ELSE IF ev[i].e = "Text" THEN code_strings(ev, i + 1, Append(strings, ev[i].text))
    ELSE code_strings(ev, i + 1,
            Append(strings, Debug("ERROR: Unexpected Markdown Event in code block: ",
                                  ev[i])))

parse_code(ev, i, kind) ==
    LET r == code_strings(ev, i, <<>>)
    IN  [out |-> Tree_CodeBlock(kind, join(r.out, <<>>)), i |-> r.i]

\* Tags that parse_blocks_until answers with a message or not at all.
TodoTags == {"HtmlBlock"}
UnexpectedTags ==
    {"DefinitionList", "DefinitionListTitle", "DefinitionListDefinition",
     "FootnoteDefinition", "Table", "TableHead", "TableRow", "TableCell"}
SkippedTags == {"Strikethrough", "Superscript", "Subscript", "MetadataBlock"}

RECURSIVE parse_blocks_from(_, _, _, _)
RECURSIVE parse_inline(_, _, _)
RECURSIVE parse_link(_, _, _)
RECURSIVE parse_image(_, _, _)
RECURSIVE parse_tag(_, _, _)

\* parse_inline that never finds its end condition.
parse_inline_to_end_of_input(ev, i, end_condition) ==
    LET r == parse_blocks_from(ev, i, {}, <<>>)
        of(block) == IF block.block = "PseudoP" THEN block.parts
                     ELSE <<Inline_Text(Debug("(Unexpected Inline Block: ", block))>>
    IN  [out |-> join([k \in 1..Len(r.out) |-> of(r.out[k])], <<>>), i |-> r.i]

\* Parser::parse_inline: the parts of the pseudo-paragraphs parsed up to the
\* end condition, a message for every other block.
parse_inline(ev, i, end_condition) ==
    LET r == parse_blocks_from(ev, i, end_condition, <<>>)
        of(block) == IF block.block = "PseudoP" THEN block.parts
                     ELSE <<Inline_Text(Debug("(Unexpected Inline Block: ", block))>>
    IN  [out |-> join([k \in 1..Len(r.out) |-> of(r.out[k])], <<>>), i |-> r.i]

\* Parser::parse_link, for the Start(Link) event tag.
parse_link(ev, i, tag) ==
    LET r == parse_inline(ev, i, {"Link"})
    IN  [out |-> [k \in 1..Len(r.out) |-> link_part(r.out[k], tag.dest_url)],
         i |-> r.i]

\* Parser::parse_image, for the Start(Image) event tag.
parse_image(ev, i, tag) ==
    LET r == parse_inline(ev, i, {"Image"})
    IN  [out |-> Inline_Image(Image(tag.dest_url,
                                    image_alt(r.out, tag.dest_url, tag.id),
                                    tag.title)),
         i |-> r.i]

\* The Start(tag) arm of parse_blocks_until: the blocks after the tag's own
\* parser has run from index i.
parse_tag(ev, i, st) ==
    LET tag == st.tag
        blocks == st.blocks
    IN  CASE tag.tag = "Paragraph" ->
               LET r == parse_inline(ev, i, {"Paragraph"})
               IN  [out |-> Append(blocks, Tree_P(r.out)), i |-> r.i]
          [] tag.tag = "Heading" ->
               LET r == parse_heading(ev, i, tag.level)
               IN  [out |-> Append(blocks, r.out), i |-> r.i]
          [] tag.tag = "BlockQuote" ->
               LET r == parse_blocks_from(ev, i, {"BlockQuote"}, <<>>)
               IN  [out |-> Append(blocks, Tree_BlockQuote(r.out)), i |-> r.i]
          [] tag.tag = "CodeBlock" ->
               LET r == parse_code(ev, i, tag.kind)
               IN  [out |-> Append(blocks, r.out), i |-> r.i]
          [] tag.tag = "List" ->
               LET r == parse_blocks_from(ev, i, {"List"}, <<>>)
               IN  [out |-> Append(blocks, Tree_List(tag.start_num, r.out)), i |-> r.i]
          [] tag.tag = "Item" ->
               LET r == parse_blocks_from(ev, i, {"Item"}, <<>>)
               IN  [out |-> Append(blocks, Tree_ListItem(r.out)), i |-> r.i]
          [] tag.tag \in TodoTags ->
               [out |-> Append(blocks, Block_from(Debug("TODO: Start Tag ", tag))),
                i |-> i]
          [] tag.tag \in UnexpectedTags ->
               [out |-> Append(blocks, Block_from(Debug("Unexpected tag: ", tag))),
                i |-> i]
          [] tag.tag = "Emphasis" ->
               LET r == parse_inline(ev, i, {"Emphasis"})
               IN  [out |-> push_inline(blocks, Inline_Styled("Italics", r.out)),
                    i |-> r.i]
          [] tag.tag = "Strong" ->
               LET r == parse_inline(ev, i, {"Strong"})
               IN  [out |-> push_inline(blocks, Inline_Styled("Bold", r.out)),
                    i |-> r.i]
          [] tag.tag = "Link" ->
               LET r == parse_link(ev, i, tag)
               IN  [out |-> push_inlines(blocks, r.out), i |-> r.i]
          [] tag.tag = "Image" ->
               LET r == parse_image(ev, i, tag)
               IN  [out |-> push_inline(blocks, r.out), i |-> r.i]
          [] tag.tag \in SkippedTags -> [out |-> blocks, i |-> i]

\* The loop of Parser::parse_blocks_until from the event at index i, with the
\* blocks pushed so far; matches is the set of end tags the closure accepts.
parse_blocks_from(ev, i, matches, blocks) ==
    IF i > Len(ev) THEN [out |-> blocks, i |-> i]
    ELSE LET event == ev[i]
         IN  IF event.e = "End" /\ event.tag \in matches
             THEN [out |-> blocks, i |-> i + 1]
             ELSE IF event.e = "Start"
             THEN LET r == parse_tag(ev, i + 1, [tag |-> event, blocks |-> blocks])
                  IN  parse_blocks_from(ev, r.i, matches, r.out)
             ELSE parse_blocks_from(ev, i + 1, matches,
                    CASE event.e = "Text" -> push_inline(blocks, Inline_Text(event.text))
                      [] event.e = "Rule" -> Append(blocks, Tree_Hr)
                      [] event.e = "SoftBreak" -> push_inline(blocks, Inline_Text(<<" ">>))
                      [] event.e = "HardBreak" -> push_inline(blocks, Inline_Text(<<"\n">>))
                      [] event.e = "Code" -> push_inline(blocks, Inline_Code(event.text))
                      [] OTHER -> push_inline(blocks, Inline_Text(
                                     Debug("(Unimplemented top-level item: ", event))))

\* parse_blocks_until that returns at any End event.
parse_blocks_until_any_end(ev, i, matches) ==
    parse_blocks_from(ev, i, {"Paragraph", "Item", "List", "BlockQuote", "Link",
                              "Image", "Emphasis", "Strong"}, <<>>)

parse_blocks_until(ev, i, matches) == parse_blocks_from(ev, i, matches, <<>>)

\* Parser::parse_all: no end tag matches at top level.
parse_all(ev) == parse_blocks_until(ev, 1, {}).out

\* The events the streams of SpecTree are made of.
TreeEvents ==
    { StartLink(<<"d">>, <<>>, <<>>), End("Link"),
      StartImage(<<"s">>, <<"t">>, <<>>), End("Image"),
      Text(<<"a">>), Start("Paragraph"), End("Paragraph") }

\* All streams of at most n events.
RECURSIVE Streams(_)
Streams(n) ==
    IF n = 0 THEN {<<>>}
    ELSE Streams(n - 1) \cup
         {Append(t, e) : t \in {u \in Streams(n - 1) : Len(u) = n - 1}, e \in TreeEvents}

\* Parser::from_md on the events of a text: parse_all over the whole stream.
InitTree ==
    /\ TabDefault
    /\ gem = Idle
    /\ net = Idle
    /\ tree \in {[pc |-> "events", events |-> ev] : ev \in Streams(MaxEvents)}

TreeParse ==
    /\ tree.pc = "events"
    /\ tree' = [pc |-> "done", events |-> tree.events, blocks |-> parse_all(tree.events)]
    /\ UNCHANGED <<location, history, forward_history, document, loading, tasks,
                   doc_task, lastNav, lastOp, gem, net>>

NextTree == TreeParse

SpecTree == InitTree /\ [][NextTree]_vars

\* The events at k..k+4 are Start(Link), Start(Image), Text, End(Image), End(Link).
LinkedImageAt(ev, k) ==
    /\ k + 4 <= Len(ev)
    /\ ev[k].e = "Start" /\ ev[k].tag = "Link"
    /\ ev[k + 1].e = "Start" /\ ev[k + 1].tag = "Image"
    /\ ev[k + 2].e = "Text"
    /\ ev[k + 3] = End("Image")
    /\ ev[k + 4] = End("Link")

\* The LinkedImage for the events at k..k+4.
LinkedImageOf(ev, k) ==
    Inline_LinkedImage(Link(ev[k].dest_url, <<>>),
                       Image(ev[k + 1].dest_url, ev[k + 2].text, ev[k + 1].title))

\* C15: for the events Start(Link d), Start(Image s), Text(a), End(Image),
\* End(Link) the tree builder produces a single LinkedImage inline whose
\* image has src s and alt a and whose link has href d, and no separate Link
\* or Image inline for that content: wherever the five events stand in a
\* stream the link's parser returns that one inline and has consumed the
\* five, and the stream of just the five builds one block holding only it.
C15_LinkedImage ==
    tree.pc = "done" =>
        /\ \A k \in 1..Len(tree.events) :
              LinkedImageAt(tree.events, k) =>
                  /\ parse_link(tree.events, k + 1, tree.events[k]).out
                        = <<LinkedImageOf(tree.events, k)>>
                  /\ parse_link(tree.events, k + 1, tree.events[k]).i = k + 5
        /\ (Len(tree.events) = 5 /\ LinkedImageAt(tree.events, 1)) =>
              tree.blocks = <<Tree_PseudoP(<<LinkedImageOf(tree.events, 1)>>)>>

\* The five events were parsed into the one LinkedImage.
C15_Witness ==
    /\ tree.pc = "done"
    /\ tree.events = << StartLink(<<"d">>, <<>>, <<>>), StartImage(<<"s">>, <<"t">>, <<>>),
                        Text(<<"a">>), End("Image"), End("Link") >>
    /\ tree.blocks = <<Tree_PseudoP(<<Inline_LinkedImage(
                            Link(<<"d">>, <<>>), Image(<<"s">>, <<"a">>, <<"t">>))>>)>>

(***************************************************************************)
(* The tree builder over streams of containers, paragraphs and inlines,    *)
(* matched or not.                                                         *)
(***************************************************************************)
\* All streams of at most n events drawn from events.
RECURSIVE StreamsOf(_, _)
StreamsOf(events, n) ==
    IF n = 0 THEN {<<>>}
    ELSE StreamsOf(events, n - 1) \cup
         {Append(t, e) : t \in {u \in StreamsOf(events, n - 1) : Len(u) = n - 1},
                         e \in events}

NestEvents ==
    { StartList(None), Start("Item"), End("Item"), Start("BlockQuote"),
      Text(<<"a">>), Code(<<"c">>), Start("Paragraph"), End("Paragraph") }

InitNest ==
    /\ TabDefault
    /\ gem = Idle
    /\ net = Idle
    /\ tree \in {[pc |-> "events", events |-> ev] : ev \in StreamsOf(NestEvents, MaxEvents)}

SpecNest == InitNest /\ [][NextTree]_vars

\* The blocks that hold a list of blocks.
Containers == {"List", "ListItem", "BlockQuote"}

\* Every list of blocks of a tree: the top level and the lists nested in it.
RECURSIVE lists_in(_)
lists_in(blocks) ==
    {blocks} \cup UNION {IF blocks[k].block \in Containers
                         THEN lists_in(blocks[k].blocks) ELSE {} : k \in 1..Len(blocks)}

\* The list k containers down the first block of each list.
RECURSIVE innermost(_, _)
innermost(blocks, k) ==
    IF k = 0 THEN blocks ELSE innermost(blocks[1].blocks, k - 1)

\* An event that is one inline, and that inline.
IsInline(event) == event.e \in {"Text", "Code"}
inline_of(event) ==
    IF event.e = "Text" THEN Inline_Text(event.text) ELSE Inline_Code(event.text)

\* The stream is k container Starts followed by inline events only, one at least.
InlinesInContainers(ev, k) ==
    /\ k < Len(ev)
    /\ \A j \in 1..k : ev[j].e = "Start" /\ ev[j].tag \in {"List", "Item", "BlockQuote"}
    /\ \A j \in (k + 1)..Len(ev) : IsInline(ev[j])

\* The inlines of the events at from..to.
inlines_of(ev, from, to) == [j \in 1..(to - from + 1) |-> inline_of(ev[from + j - 1])]

\* The stream is a paragraph of inline events, closed at m, followed by
\* inline events only, one at least.
InlinesAfterParagraph(ev, m) ==
    /\ 1 < m /\ m < Len(ev)
    /\ ev[1] = Start("Paragraph")
    /\ ev[m] = End("Paragraph")
    /\ \A j \in (2..(m - 1)) \cup ((m + 1)..Len(ev)) : IsInline(ev[j])

\* C28: in every list of blocks of a built tree, at the top level and nested
\* in lists, list items and block quotes, no pseudo-paragraph is empty and no
\* two pseudo-paragraphs are neighbours; inline events that follow each other
\* outside a paragraph form one pseudo-paragraph holding them in order, and a
\* Paragraph block only comes from a Start(Paragraph) event.
C28_PseudoParagraphs ==
    tree.pc = "done" =>
        /\ \A list \in lists_in(tree.blocks) :
              /\ \A k \in 1..Len(list) :
                    list[k].block = "PseudoP" => list[k].parts # <<>>
              /\ \A k \in 1..(Len(list) - 1) :
                    ~(list[k].block = "PseudoP" /\ list[k + 1].block = "PseudoP")
              /\ Cardinality({k \in 1..Len(list) : list[k].block = "P"})
                    <= Cardinality({j \in 1..Len(tree.events) :
                                       tree.events[j] = Start("Paragraph")})
        /\ \A k \in 0..Len(tree.events) :
              InlinesInContainers(tree.events, k) =>
                 innermost(tree.blocks, k) =
                    <<Tree_PseudoP(inlines_of(tree.events, k + 1, Len(tree.events)))>>
        /\ \A m \in 1..Len(tree.events) :
              InlinesAfterParagraph(tree.events, m) =>
                 tree.blocks =
                    <<Tree_P(inlines_of(tree.events, 2, m - 1)),
                      Tree_PseudoP(inlines_of(tree.events, m + 1, Len(tree.events)))>>

\* Two inlines inside a list item were built into one pseudo-paragraph.
C28_Witness ==
    /\ tree.pc = "done"
    /\ tree.events = <<StartList(None), Start("Item"), Text(<<"a">>), Code(<<"c">>),
                       End("Item")>>
    /\ tree.blocks = <<Tree_List(None, <<Tree_ListItem(
                          <<Tree_PseudoP(<<Inline_Text(<<"a">>), Inline_Code(<<"c">>)>>)>>)>>)>>

\* No End event for the tag of the Start event at k follows it.
EndNeverArrives(ev, k) ==
    \A j \in (k + 1)..Len(ev) : ~(ev[j].e = "End" /\ ev[j].tag = ev[k].tag)

\* The block of the Start event at k when everything after it is its content.
BlockToEndOfInput(ev, k) ==
    LET blocks == parse_blocks_until(ev, k + 1, {}).out
    IN  CASE ev[k].tag = "Paragraph" -> Tree_P(parse_inline(ev, k + 1, {}).out)
          [] ev[k].tag = "BlockQuote" -> Tree_BlockQuote(blocks)
          [] ev[k].tag = "List" -> Tree_List(ev[k].start_num, blocks)
          [] ev[k].tag = "Item" -> Tree_ListItem(blocks)

LinkEvents ==
    { StartLink(<<"d">>, <<>>, <<>>), End("Link"), Text(<<"a">>), Code(<<"c">>),
      Start("Emphasis"), End("Emphasis"), StartImage(<<"s">>, <<"t">>, <<>>),
      End("Image") }

InitLinks ==
    /\ TabDefault
    /\ gem = Idle
    /\ net = Idle
    /\ tree \in {[pc |-> "events", events |-> ev] : ev \in StreamsOf(LinkEvents, MaxEvents)}

SpecLinks == InitLinks /\ [][NextTree]_vars

\* The plain text of an inline: its text, the source of an image, the texts
\* of the parts of a styled inline with a space between them.
RECURSIVE plain_text(_)
plain_text(part) ==
    CASE part.inline \in {"Text", "Code"} -> part.text
      [] part.inline = "Link" -> part.link.text
      [] part.inline \in {"Image", "LinkedImage"} -> part.image.src
      [] part.inline = "Styled" ->
            IF part.parts = <<>> THEN <<>>
            ELSE IF Len(part.parts) = 1 THEN plain_text(part.parts[1])
            ELSE plain_text(part.parts[1]) \o <<" ">>
                 \o plain_text([part EXCEPT !.parts = Tail(@)])

\* The link of a node built for link content.
link_of(node) == node.link

\* C29: a link whose content parses to k inline parts is built into k inline
\* nodes in the order of the parts, each a Link or a LinkedImage whose href
\* is the link's destination: a Text part gives a Link with its text, a Code
\* or Styled part a Link with the part's plain text, an Image part a
\* LinkedImage of that image; a stream that is one closed link builds the
\* one pseudo-paragraph of exactly these nodes.
C29_LinkContent ==
    tree.pc = "done" =>
        \A k \in 1..Len(tree.events) :
            (tree.events[k].e = "Start" /\ tree.events[k].tag = "Link") =>
                LET dest == tree.events[k].dest_url
                    parts == parse_inline(tree.events, k + 1, {"Link"}).out
                    nodes == parse_link(tree.events, k + 1, tree.events[k]).out
                IN  /\ Len(nodes) = Len(parts)
                    /\ \A j \in 1..Len(parts) :
                          /\ nodes[j].inline \in {"Link", "LinkedImage"}
                          /\ link_of(nodes[j]).href = dest
                          /\ parts[j].inline = "Text" =>
                                nodes[j] = Inline_Link(Link(dest, parts[j].text))
                          /\ parts[j].inline \in {"Code", "Styled"} =>
                                nodes[j] = Inline_Link(Link(dest, plain_text(parts[j])))
                          /\ parts[j].inline = "Image" =>
                                nodes[j] = Inline_LinkedImage(Link(dest, <<>>), parts[j].image)
                    /\ (k = 1 /\ parts # <<>>
                        /\ parse_link(tree.events, 2, tree.events[1]).i = Len(tree.events) + 1)
                          => tree.blocks = <<Tree_PseudoP(nodes)>>

\* A link around an emphasized text and a code span was built into two Links
\* to its destination, in that order.
C29_Witness ==
    /\ tree.pc = "done"
    /\ tree.events = <<StartLink(<<"d">>, <<>>, <<>>), Start("Emphasis"), Text(<<"a">>),
                       End("Emphasis"), Code(<<"c">>)>>
    /\ tree.blocks = <<Tree_PseudoP(<<Inline_Link(Link(<<"d">>, <<"a">>)),
                                      Inline_Link(Link(<<"d">>, <<"c">>))>>)>>

(***************************************************************************)
(* The tree builder over well-nested streams: every Start has its End and  *)
(* the pairs do not cross.                                                 *)
(***************************************************************************)
\* The Start events of the elements that have a sub-parser of their own in
\* parse_blocks_until, and the events that are one inline.
NestingStarts ==
    { StartList(None), Start("Item"), Start("BlockQuote"), Start("Paragraph"),
      Start("Emphasis"), Start("Strong"), StartLink(<<"d">>, <<>>, <<>>),
      StartImage(<<"s">>, <<"t">>, <<>>) }
NestingLeaves == { Text(<<"a">>) }

\* The well-nested streams of exactly n events.
RECURSIVE WellNested(_)
WellNested(n) ==
    IF n = 0 THEN {<<>>}
    ELSE {<<l>> \o rest : l \in NestingLeaves, rest \in WellNested(n - 1)}
         \cup UNION {{<<s>> \o inner \o <<End(s.tag)>> \o rest :
                         s \in NestingStarts, inner \in WellNested(m),
                         rest \in WellNested(n - 2 - m)} : m \in 0..(n - 2)}

InitNesting ==
    /\ TabDefault
    /\ gem = Idle
    /\ net = Idle
    /\ tree \in {[pc |-> "events", events |-> ev] :
                    ev \in UNION {WellNested(n) : n \in 0..MaxEvents}}

SpecNesting == InitNesting /\ [][NextTree]_vars

\* The index of the End event that closes the Start event at k: the first
\* index after k at which as many Ends as Starts have passed.
matching_end(ev, k) ==
    LET depth(m) == Cardinality({j \in k..m : ev[j].e = "Start"})
                    - Cardinality({j \in k..m : ev[j].e = "End"})
    IN  CHOOSE m \in (k + 1)..Len(ev) :
            depth(m) = 0 /\ \A j \in k..(m - 1) : depth(j) > 0

\* The nesting of a stream: an element is its tag and the nesting of what
\* lies between its Start and its End; a leaf event is a Text.
Node(tag, kids) == [tag |-> tag, kids |-> kids]
Leaf == Node("Text", <<>>)

RECURSIVE stream_nesting(_, _, _)
stream_nesting(ev, from, to) ==
    IF from > to THEN <<>>
    ELSE IF ev[from].e = "Start"
    THEN LET m == matching_end(ev, from)
         IN  <<Node(ev[from].tag, stream_nesting(ev, from + 1, m - 1))>>
             \o stream_nesting(ev, m + 1, to)
    ELSE <<Leaf>> \o stream_nesting(ev, from + 1, to)

\* The nesting of a tree: a pseudo-paragraph stands for its parts, a Link
\* for a link around its text, a LinkedImage for a link around an image.
RECURSIVE inline_nesting(_)
inline_nesting(parts) ==
    IF parts = <<>> THEN <<>>
    ELSE LET part == Head(parts)
             node == CASE part.inline \in {"Text", "Code"} -> Leaf
                       [] part.inline = "Styled" ->
                            Node(IF part.style = "Italics" THEN "Emphasis" ELSE "Strong",
                                 inline_nesting(part.parts))
                       [] part.inline = "Link" -> Node("Link", <<Leaf>>)
                       [] part.inline = "Image" -> Node("Image", <<Leaf>>)
                       [] part.inline = "LinkedImage" ->
                            Node("Link", <<Node("Image", <<Leaf>>)>>)
         IN  <<node>> \o inline_nesting(Tail(parts))

RECURSIVE block_nesting(_)
block_nesting(blocks) ==
    IF blocks = <<>> THEN <<>>
    ELSE LET block == Head(blocks)
             nodes == CASE block.block = "PseudoP" -> inline_nesting(block.parts)
                        [] block.block = "P" ->
                             <<Node("Paragraph", inline_nesting(block.parts))>>
                        [] block.block = "List" ->
                             <<Node("List", block_nesting(block.blocks))>>
                        [] block.block = "ListItem" ->
                             <<Node("Item", block_nesting(block.blocks))>>
                        [] block.block = "BlockQuote" ->
                             <<Node("BlockQuote", block_nesting(block.blocks))>>
                        [] OTHER -> <<Node(block.block, <<>>)>>
         IN  nodes \o block_nesting(Tail(blocks))

\* Each End is taken by the sub-parser that its Start started: that parser
\* returns right after the matching End.
EndsTakenByTheirStart(ev) ==
    \A k \in 1..Len(ev) :
        ev[k].e = "Start" =>
            parse_tag(ev, k + 1, [tag |-> ev[k], blocks |-> <<>>]).i
                = matching_end(ev, k) + 1

BlockContainers == {"List", "Item", "BlockQuote"}
InlineContainers == {"Paragraph", "Emphasis", "Strong"}

\* The stream has no link and no image, and no block element or paragraph
\* inside a paragraph or a styled inline.
BlocksAndStylesOnly(ev) ==
    \A k \in 1..Len(ev) :
        ev[k].e = "Start" =>
            /\ ev[k].tag \in BlockContainers \cup InlineContainers
            /\ ev[k].tag \in BlockContainers \cup {"Paragraph"} =>
                  \A j \in 1..(k - 1) :
                      (ev[j].e = "Start" /\ matching_end(ev, j) > k)
                          => ev[j].tag \in BlockContainers

HeadingEvents ==
    { StartHeading(1), End("Heading"), Text(<<"a">>), Text(<<"b">>), Code(<<"c">>),
      Start("Emphasis"), End("Emphasis"), SoftBreak }

InitHeadings ==
    /\ TabDefault
    /\ gem = Idle
    /\ net = Idle
    /\ tree \in {[pc |-> "events", events |-> ev] :
                    ev \in StreamsOf(HeadingEvents, MaxEvents)}

SpecHeadings == InitHeadings /\ [][NextTree]_vars

\* The content of the text-bearing events (Text and inline Code) among
\* ev[from..to], in order.
RECURSIVE bearing_text(_, _, _)
bearing_text(ev, from, to) ==
    IF from > to THEN <<>>
    ELSE (IF ev[from].e \in {"Text", "Code"} THEN ev[from].text ELSE <<>>)
         \o bearing_text(ev, from + 1, to)

\* The index of the first End(Heading) after the first event, or one past
\* the stream when there is none.
heading_end(ev) ==
    LET ends == {k \in 2..Len(ev) : ev[k] = End("Heading")}
    IN  IF ends = {} THEN Len(ev) + 1
        ELSE CHOOSE k \in ends : \A j \in ends : k <= j

\* C39: the text of the Heading built for a stream that starts with a
\* heading's Start holds, in order, the content of every Text and inline
\* Code event between that Start and its End: none is dropped.
C39_HeadingKeepsAllText ==
    (/\ tree.pc = "done"
     /\ tree.events # <<>>
     /\ tree.events[1] = StartHeading(1))
        => /\ tree.blocks # <<>>
           /\ tree.blocks[1].block = "Heading"
           /\ tree.blocks[1].text =
                 bearing_text(tree.events, 2, heading_end(tree.events) - 1)

(***************************************************************************)
(* HttpLoader (src/src/browser/network/http.rs): one run of _fetch against *)
(* a server whose answer is fixed when the run starts.                     *)
(***************************************************************************)
\* HttpLoader::default().max_size: 100 MiB.
max_size == 1024 * 1024 * 100
\* HttpLoader::default().accept_content_types, parsed.
accept_content_types == <<"text/gemini; q=1", "text/markdown; q=0.9", "text/plain; q=0.8">>

\* The content-type header of a response: absent, bytes that are no visible
\* ASCII (HeaderValue::to_str fails), or a string.
NoHeader == "absent"
OpaqueHeader == "opaque bytes"
HeaderStrings ==
    {"text/gemini", "text/gemini; charset=utf-8", "Text/Gemini", "text/markdown",
     "text/plain", "text/html", "image/png", "garbage"}
ContentTypeHeaders == {NoHeader, OpaqueHeader} \cup HeaderStrings

\* str::parse::<Mime>: an error without type/subtype, else the Mime, whose
\* source is lower case.
Mime_parse(str) ==
    CASE str = "garbage" -> [ok |-> FALSE, mime |-> "-"]
      [] str = "Text/Gemini" -> [ok |-> TRUE, mime |-> "text/gemini"]
      [] OTHER -> [ok |-> TRUE, mime |-> str]

StatusCodes == {200, 204, 301, 404}
\* Response::content_length: None, or the declared length.
NoLength == -1
ContentLengths == {NoLength, 10, max_size, max_size + 1}

\* What the server does: whether the request gets a response, the response's
\* status, content-type header and declared length, whether the body arrives.
Servers ==
    [send_ok : BOOLEAN, code : StatusCodes, header : ContentTypeHeaders,
     content_length : ContentLengths, body_ok : BOOLEAN]

Err(e) == [NoResult EXCEPT !.tag = "Err", !.err = e]

\* _fetch from the response to the body read, without the test of the type
\* against accept_content_types.
http_check_no_type_match(response) ==
    IF response.header = OpaqueHeader THEN Err("Unknown")
    ELSE IF response.header # NoHeader /\ ~Mime_parse(response.header).ok
    THEN Err("MimeParseError")
    ELSE IF HttpStatus_ok(response.code) /\ response.header = NoHeader
    THEN Err("MissingContentType")
    ELSE NoResult

\* _fetch from the response to the body read: NoResult when the body is to be
\* read, else the error returned.
http_check(response) ==
    LET ctype == IF response.header = NoHeader THEN "None"
                 ELSE Mime_parse(response.header).mime
        type_match == \E k \in 1..Len(accept_content_types) :
                          essence_str(accept_content_types[k]) = essence_str(ctype)
    IN  IF response.header = OpaqueHeader THEN Err("Unknown")
        ELSE IF response.header # NoHeader /\ ~Mime_parse(response.header).ok
        THEN Err("MimeParseError")
        ELSE IF HttpStatus_ok(response.code) /\ ctype = "None"
        THEN Err("MissingContentType")
        ELSE IF HttpStatus_ok(response.code) /\ ~type_match
        THEN Err("UnrequestedContentType")
        ELSE NoResult

\* The LoadedResource _fetch builds.
http_resource(response) ==
    [tag |-> "Ok", err |-> "-", status |-> "HttpStatus", code |-> response.code,
     ctype |-> IF response.header = NoHeader THEN "None"
               ELSE Mime_parse(response.header).mime,
     body |-> "Text"]

InitHttp ==
    /\ TabDefault
    /\ gem = Idle
    /\ tree = Idle
    /\ net \in {[pc |-> "send", server |-> sv, body_read |-> FALSE, result |-> NoResult] :
                    sv \in Servers}

\* client.get(url).header("Accept", ..).send().await?
HttpSend ==
    /\ net.pc = "send"
    /\ net' = IF net.server.send_ok THEN [net EXCEPT !.pc = "response"]
              ELSE [net EXCEPT !.pc = "done", !.result = Err("Unknown")]
    /\ UNCHANGED <<location, history, forward_history, document, loading, tasks,
                   doc_task, lastNav, lastOp, gem, tree>>

\* The headers and the status of the response are examined.
HttpCheck ==
    /\ net.pc = "response"
    /\ net' = IF http_check(net.server) = NoResult THEN [net EXCEPT !.pc = "body"]
              ELSE [net EXCEPT !.pc = "done", !.result = http_check(net.server)]
    /\ UNCHANGED <<location, history, forward_history, document, loading, tasks,
                   doc_task, lastNav, lastOp, gem, tree>>

\* response.text().await? and the resource is returned.
HttpReadBody ==
    /\ net.pc = "body"
    /\ net' = [net EXCEPT !.pc = "done", !.body_read = TRUE,
                          !.result = IF net.server.body_ok THEN http_resource(net.server)
                                     ELSE Err("Unknown")]
    /\ UNCHANGED <<location, history, forward_history, document, loading, tasks,
                   doc_task, lastNav, lastOp, gem, tree>>

NextHttp == HttpSend \/ HttpCheck \/ HttpReadBody

SpecHttp == InitHttp /\ [][NextHttp]_vars

\* The headers whose type/subtype is one of the accepted types, and those
\* that name another type.
AcceptedHeaders ==
    {"text/gemini", "text/gemini; charset=utf-8", "Text/Gemini", "text/markdown",
     "text/plain"}
OtherTypeHeaders == {"text/html", "image/png"}

\* The run has returned after a response arrived.
Responded == net.pc = "done" /\ net.server.send_ok

\* C16: when the response has a success status, the body is read only if a
\* content-type header is present and its type/subtype is an accepted type;
\* a missing content-type ends in MissingContentType and a content-type of
\* another type in UnrequestedContentType, both with no read of the body.
C16_NegotiationBeforeBody ==
    HttpStatus_ok(net.server.code) =>
        /\ net.body_read => net.server.header \in AcceptedHeaders
        /\ (Responded /\ net.server.header = NoHeader) =>
              net.result = Err("MissingContentType") /\ ~net.body_read
        /\ (Responded /\ net.server.header \in OtherTypeHeaders) =>
              net.result = Err("UnrequestedContentType") /\ ~net.body_read

\* Both outcomes have happened: a 200 text/html response was refused unread.
C16_Witness ==
    /\ Responded
    /\ net.server.code = 200
    /\ net.server.header = "text/html"
    /\ net.result = Err("UnrequestedContentType")
    /\ ~net.body_read

\* C17: when the response has a non-success status, the loader returns a
\* LoadedResource with that status whatever the content-type header is
\* (absent, outside the accepted set, or arbitrary text), never an error
\* about the content type.
C17_NonSuccessAnyContentType ==
    (Responded /\ ~HttpStatus_ok(net.server.code)) =>
        /\ net.result.err \notin {"MissingContentType", "UnrequestedContentType",
                                  "UnsupportedContentType", "MimeParseError"}
        /\ (net.server.header # OpaqueHeader /\ net.server.body_ok) =>
              net.result = http_resource(net.server)

\* C18: a response whose declared content-length exceeds the ceiling of
\* 100 MiB ends in ResponseTooBig and its body is never read.
C18_TooBigRefused ==
    (Responded /\ net.server.content_length > max_size) =>
        /\ net.result = Err("ResponseTooBig")
        /\ ~net.body_read

(***************************************************************************)
(* URLs (the url crate, as used by src/src/browser/tab.rs and the loaders).*)
(* A URL string is a sequence of characters; a parsed Url is its scheme,   *)
(* its host and its path segments, percent-encoded as Url keeps them.      *)
(***************************************************************************)
\* Path segments of a requested file URL.
MaxDepth == 2

Alpha ==
    {"a", "b", "c", "d", "e", "f", "g", "h", "i", "j", "k", "l", "m", "n", "o", "p", "q", "r", "s", "t", "u", "v", "w", "x", "y", "z",
     "A", "B", "C", "D", "E", "F", "G", "H", "I", "J", "K", "L", "M", "N", "O", "P", "Q", "R", "S", "T", "U", "V", "W", "X", "Y", "Z"}
Digits == {"0", "1", "2", "3", "4", "5", "6", "7", "8", "9"}

\* The index of the ':' that ends a scheme at the start of s (an ASCII letter,
\* then letters, digits, '+', '-' or '.'), or 0 when s starts with no scheme.
scheme_end(s) ==
    LET k == run(s, Alpha \cup Digits \cup {"+", "-", "."}) + 1
    IN  IF s # <<>> /\ s[1] \in Alpha /\ k <= Len(s) /\ s[k] = ":" THEN k ELSE 0

\* str::split('/').
RECURSIVE split(_)
split(s) ==
    LET k == run_not(s, {"/"})
    IN  IF k = Len(s) THEN <<s>> ELSE <<SubSeq(s, 1, k)>> \o split(drop(s, k + 1))

\* str::replace(" ", "%20"), also what the path percent-encode set does to a space.
RECURSIVE replace_space(_)
replace_space(s) ==
    IF s = <<>> THEN <<>>
    ELSE IF Head(s) = " " THEN <<"%", "2", "0">> \o replace_space(Tail(s))
    ELSE <<Head(s)>> \o replace_space(Tail(s))

\* The segments of a path that follows its leading '/'.
path_segments(path) ==
    LET segs == split(path) IN [k \in 1..Len(segs) |-> replace_space(segs[k])]

\* Url::parse: an error for a string without a scheme (a relative URL without
\* a base); scheme://host/path with the path split into segments; any other
\* scheme:rest as a URL that cannot be a base.
Url_parse(str) ==
    LET k == scheme_end(str)
        rest == drop(str, k)
        after == drop(rest, 2)
        host == SubSeq(after, 1, run_not(after, {"/"}))
        path == drop(after, Len(host) + 1)
    IN  IF k = 0 THEN [ok |-> FALSE]
        ELSE IF starts_with(rest, <<"/", "/">>)
        THEN [ok |-> TRUE,
              url |-> [scheme |-> SubSeq(str, 1, k - 1), host |-> host,
                       path |-> path_segments(path), cannot_be_a_base |-> FALSE]]
        ELSE [ok |-> TRUE,
              url |-> [scheme |-> SubSeq(str, 1, k - 1), host |-> <<>>,
                       path |-> <<rest>>, cannot_be_a_base |-> TRUE]]

\* Url::join: a string that starts with a scheme is parsed on its own, any
\* other replaces the last segment of the base path.
Url_join(base, input) ==
    IF scheme_end(input) # 0 THEN Url_parse(input)
    ELSE IF base.cannot_be_a_base THEN [ok |-> FALSE]
    ELSE [ok |-> TRUE,
          url |-> [base EXCEPT !.path = SubSeq(base.path, 1, Len(base.path) - 1)
                                            \o path_segments(input)]]

\* url_join of tab.rs.
url_join(loc, url) ==
    IF ~Url_parse(loc).ok THEN [ok |-> FALSE]
    ELSE Url_join(Url_parse(loc).url, url)

\* Url::path().ends_with("/")
path_ends_with_slash(url) == url.path[Len(url.path)] = <<>>

\* Url::to_file_path: only for a URL without a host.
to_file_path_ok(url) == url.host = <<>>

(***************************************************************************)
(* FileLoader (src/src/browser/network/file.rs): one run of _fetch for a   *)
(* file URL against a file system whose answers are fixed when it starts.  *)
(***************************************************************************)
FILE_SCHEME == <<"f", "i", "l", "e">>
mebibyte == 1024 * 1024

\* Names of directories and files, in the order of str's Ord.
NameOrder == << <<"a", " ", "b">>, <<"a", ":", "b">>, <<"d">> >>
Names == {NameOrder[k] : k \in 1..Len(NameOrder)}
Hosts == {<<>>, <<"h">>}

\* "/n1/n2" for the names of p.
RECURSIVE path_string(_)
path_string(p) ==
    IF p = <<>> THEN <<>> ELSE <<"/">> \o Head(p) \o path_string(Tail(p))

\* All paths of at most n names.
RECURSIVE Paths(_)
Paths(n) ==
    IF n = 0 THEN {<<>>}
    ELSE Paths(n - 1) \cup
         {Append(p, x) : p \in {q \in Paths(n - 1) : Len(q) = n - 1}, x \in Names}

\* file://host/n1/n2 with or without a trailing slash, and file://host/.
FileUrls ==
    { FILE_SCHEME \o <<":", "/", "/">> \o h \o path_string(p) \o sl :
         h \in Hosts, p \in Paths(MaxDepth), sl \in {<<>>, <<"/">>} }
    \ { FILE_SCHEME \o <<":", "/", "/">> \o h : h \in Hosts }

\* What the file system holds at the path: nothing, something stat fails on,
\* a directory with its entries, a regular file, neither of the two, or a
\* symbolic link to one of these (to nothing: a dangling link).
LinkTargets ==
    {[kind |-> "NotFound"],
     [kind |-> "Dir", dirs |-> {NameOrder[3]}, files |-> {NameOrder[2]}, read_ok |-> TRUE],
     [kind |-> "File", size |-> 10, guess |-> "text/plain", read_ok |-> TRUE]}
FsEntries ==
    {[kind |-> "NotFound"], [kind |-> "IoError"], [kind |-> "Other"]}
    \cup {e \in {[kind |-> "Dir", dirs |-> ds, files |-> fs, read_ok |-> ok] :
                    ds \in {{}, {NameOrder[3], NameOrder[1]}},
                    fs \in {{}, {NameOrder[2]}, {NameOrder[3], NameOrder[2]}},
                    ok \in BOOLEAN} : e.dirs \cap e.files = {}}
    \cup {[kind |-> "File", size |-> sz, guess |-> g, read_ok |-> ok] :
            sz \in {10, 30 * mebibyte, 30 * mebibyte + 1},
            g \in {"None", "text/plain", "image/png"}, ok \in BOOLEAN}
    \cup {[kind |-> "Symlink", target |-> e] : e \in LinkTargets}

\* tokio::fs::metadata(&path), and the reads by path after it: std's metadata,
\* read_dir and read_to_string traverse a symbolic link and answer for its
\* destination.
metadata(entry) == IF entry.kind = "Symlink" THEN entry.target ELSE entry

\* A LoadedResource of the file loader; text is the body as its lines.
file_resource(status, ctype, text) ==
    [tag |-> "Ok", err |-> "-", status |-> status, code |-> 0, ctype |-> ctype,
     body |-> "Text", text |-> text]

not_found(url) == file_resource("NotFound", "text/plain", << <<"N", "o", " ", "s", "u", "c", "h", " ", "f", "i", "l", "e">> >>)

\* dir_needs_slash that links to the last segment without the slash.
dir_needs_slash_no_slash(url) ==
    LET last_seg == url.path[Len(url.path)]
    IN  file_resource("DirNeedsSlash", "text/gemini",
            << <<"#", " ", "F", "i", "l", "e", " ", "N", "o", "t", " ", "F", "o", "u", "n", "d">>,
               <<>>,
               <<".", ".", ".", " ", "b", "u", "t", " ", "w", "e", " ", "f", "o", "u", "n", "d", " ", "a", " ", "d", "i", "r", "e", "c", "t", "o", "r", "y", ".", " ", "D", "i", "d", " ", "y", "o", "u", " ", "m", "e", "a", "n", ":">>,
               <<>>,
               <<"=", ">", " ">> \o replace_space(last_seg) >>)

\* dir_needs_slash: the page that links to the last path segment plus '/'.
dir_needs_slash(url) ==
    LET last_seg == url.path[Len(url.path)]
    IN  file_resource("DirNeedsSlash", "text/gemini",
            << <<"#", " ", "F", "i", "l", "e", " ", "N", "o", "t", " ", "F", "o", "u", "n", "d">>,
               <<>>,
               <<".", ".", ".", " ", "b", "u", "t", " ", "w", "e", " ", "f", "o", "u", "n", "d", " ", "a", " ", "d", "i", "r", "e", "c", "t", "o", "r", "y", ".", " ", "D", "i", "d", " ", "y", "o", "u", " ", "m", "e", "a", "n", ":">>,
               <<>>,
               <<"=", ">", " ">> \o replace_space(last_seg) \o <<"/">> >>)

\* Vec::sort on a set of names.
sort(names) ==
    LET In(n) == n \in names IN SelectSeq(NameOrder, In)

\* gemtext_dir_list that lists the files ahead of the directories.
gemtext_dir_list_files_first(url, entry) ==
    LET dirs == sort(entry.dirs)
        files == sort(entry.files)
    IN  file_resource("Ok", "text/gemini",
            (IF url.path # << <<>> >> THEN << <<"=", ">", " ", ".", ".", "/">> >> ELSE <<>>)
            \o [k \in 1..Len(files) |-> <<"=", ">", " ">> \o replace_space(files[k])]
            \o (IF dirs # <<>> THEN << <<>> >> ELSE <<>>)
            \o [k \in 1..Len(dirs) |-> <<"=", ">", " ">> \o replace_space(dirs[k]) \o <<"/">>])

\* gemtext_dir_list once the entries were read: the parent link, the
\* directories, a blank line if there is any directory, the files.
gemtext_dir_list(url, entry) ==
    LET dirs == sort(entry.dirs)
        files == sort(entry.files)
    IN  file_resource("Ok", "text/gemini",
            (IF url.path # << <<>> >> THEN << <<"=", ">", " ", ".", ".", "/">> >> ELSE <<>>)
            \o [k \in 1..Len(dirs) |-> <<"=", ">", " ">> \o replace_space(dirs[k]) \o <<"/">>]
            \o (IF dirs # <<>> THEN << <<>> >> ELSE <<>>)
            \o [k \in 1..Len(files) |-> <<"=", ">", " ">> \o replace_space(files[k])])

\* load_file's checks without the one on the top-level type.
load_file_check_any_type(entry) ==
    IF entry.guess = "None" THEN Err("MissingContentType")
    ELSE NoResult

\* load_file before the read: the error for the guessed type, or NoResult.
load_file_check(entry) ==
    IF entry.guess = "None" THEN Err("MissingContentType")
    ELSE IF type_(entry.guess) # "text" THEN Err("UnsupportedContentType")
    ELSE NoResult

\* FileLoader::fetch(url) for the Url parsed from the requested string loc.
InitFile ==
    /\ TabDefault
    /\ gem = Idle
    /\ tree = Idle
    /\ net \in {[pc |-> "url", loc |-> loc, url |-> Url_parse(loc).url, entry |-> e,
                 content_read |-> FALSE, result |-> NoResult] :
                    loc \in FileUrls, e \in FsEntries}

FileReturn(result) == [net EXCEPT !.pc = "done", !.result = result]

\* The scheme and the file path of the URL.
FileCheckUrl ==
    /\ net.pc = "url"
    /\ net' = IF net.url.scheme # FILE_SCHEME \/ ~to_file_path_ok(net.url)
              THEN FileReturn(Err("InvalidUrl"))
              ELSE [net EXCEPT !.pc = "stat"]
    /\ UNCHANGED <<location, history, forward_history, document, loading, tasks,
                   doc_task, lastNav, lastOp, gem, tree>>

\* tokio::fs::metadata and the branches on what it found.
FileStat ==
    /\ net.pc = "stat"
    /\ net' =
        CASE metadata(net.entry).kind = "NotFound" -> FileReturn(not_found(net.url))
          [] metadata(net.entry).kind = "IoError" -> FileReturn(Err("IoError"))
          [] metadata(net.entry).kind = "Dir" ->
                IF ~path_ends_with_slash(net.url) THEN FileReturn(dir_needs_slash(net.url))
                ELSE [net EXCEPT !.pc = "dir_list"]
          [] metadata(net.entry).kind = "File" ->
                IF metadata(net.entry).size > 30 * mebibyte THEN FileReturn(Err("Unknown"))
                ELSE [net EXCEPT !.pc = "load_file"]
          [] OTHER -> FileReturn(not_found(net.url))
    /\ UNCHANGED <<location, history, forward_history, document, loading, tasks,
                   doc_task, lastNav, lastOp, gem, tree>>

\* gemtext_dir_list: the entries are read and the listing is returned.
FileDirList ==
    /\ net.pc = "dir_list"
    /\ net' = IF metadata(net.entry).read_ok THEN FileReturn(gemtext_dir_list(net.url, metadata(net.entry)))
              ELSE FileReturn(Err("IoError"))
    /\ UNCHANGED <<location, history, forward_history, document, loading, tasks,
                   doc_task, lastNav, lastOp, gem, tree>>

\* load_file: the type is guessed, then the content is read.
FileLoadFile ==
    /\ net.pc = "load_file"
    /\ net' =
        IF load_file_check(metadata(net.entry)) # NoResult THEN FileReturn(load_file_check(metadata(net.entry)))
        ELSE [FileReturn(IF metadata(net.entry).read_ok
                         THEN file_resource("Ok", metadata(net.entry).guess, << <<"t">> >>)
                         ELSE Err("IoError"))
                EXCEPT !.content_read = TRUE]
    /\ UNCHANGED <<location, history, forward_history, document, loading, tasks,
                   doc_task, lastNav, lastOp, gem, tree>>

NextFile == FileCheckUrl \/ FileStat \/ FileDirList \/ FileLoadFile

SpecFile == InitFile /\ [][NextFile]_vars

\* The URLs of the links in a gemtext body.
LinkUrlsOf(text) ==
    LET blocks == parse(FALSE, text).blocks
    IN  {blocks[k].url : k \in {j \in 1..Len(blocks) : blocks[j].block = "Link"}}

\* The run was for a directory named without a trailing slash, and returned.
DirWithoutSlash ==
    /\ net.pc = "done"
    /\ to_file_path_ok(net.url)
    /\ net.entry.kind = "Dir"
    /\ net.loc[Len(net.loc)] # "/"

\* C19: a file URL that resolves to a directory and has no trailing slash
\* returns Ok with the status DirNeedsSlash and a gemtext body that contains
\* a link which, resolved against the requested URL, is the requested URL
\* with a slash appended.
C19_DirNeedsSlashLink ==
    DirWithoutSlash =>
        /\ net.result.tag = "Ok"
        /\ net.result.status = "DirNeedsSlash"
        /\ net.result.ctype = "text/gemini"
        /\ \E u \in LinkUrlsOf(net.result.text) :
              url_join(net.loc, u) = Url_parse(Append(net.loc, "/"))

\* The run was for a path that is a symbolic link to a regular file or to a
\* directory, and returned.
SymlinkFetched ==
    /\ net.pc = "done"
    /\ to_file_path_ok(net.url)
    /\ net.entry.kind = "Symlink"
    /\ net.entry.target.kind \in {"File", "Dir"}

\* C22: a file URL whose path is a symbolic link, to a regular file or to a
\* directory, returns the not-found resource, and neither the content nor
\* the listing of the link's target is read.
C22_SymlinkNotFollowed ==
    SymlinkFetched =>
        /\ net.result = not_found(net.url)
        /\ ~net.content_read

\* The characters of the names by code point, and the order of strings by
\* their first difference.
CharOrder == <<" ", ":", "a", "b", "d">>
code_point(c) == CHOOSE k \in 1..Len(CharOrder) : CharOrder[k] = c
lex_less(s, t) ==
    \E k \in 1..(Len(t)) :
        /\ \A j \in 1..(k - 1) : j <= Len(s) /\ s[j] = t[j]
        /\ \/ k = Len(s) + 1
           \/ k <= Len(s) /\ code_point(s[k]) < code_point(t[k])

\* The names of a set in lexicographic order.
in_order(names) ==
    CHOOSE s \in [1..Cardinality(names) -> names] :
        \A i, j \in 1..Cardinality(names) : i < j => lex_less(s[i], s[j])

\* A name with each of its spaces written %20.
RECURSIVE escaped(_)
escaped(name) ==
    IF name = <<>> THEN <<>>
    ELSE (IF Head(name) = " " THEN <<"%", "2", "0">> ELSE <<Head(name)>>)
         \o escaped(Tail(name))

link_line(target) == <<"=", ">", " ">> \o target

\* The run listed a directory named with a trailing slash, and returned it.
DirListed ==
    /\ net.pc = "done"
    /\ to_file_path_ok(net.url)
    /\ net.entry.kind = "Dir"
    /\ net.entry.read_ok
    /\ net.loc[Len(net.loc)] = "/"

\* The lines of the listing up to the separator, and those after it.
ParentLines == IF net.url.path # << <<>> >> THEN <<link_line(<<".", ".", "/">>)>> ELSE <<>>
DirLines ==
    [k \in 1..Cardinality(net.entry.dirs) |->
        link_line(escaped(in_order(net.entry.dirs)[k]) \o <<"/">>)]
FileLines ==
    [k \in 1..Cardinality(net.entry.files) |->
        link_line(escaped(in_order(net.entry.files)[k]))]

\* C32 as stated: the listing is the parent link if there is a parent, the
\* subdirectories in order with a slash, a blank line, the files in order.
C32_Original ==
    DirListed =>
        /\ net.result.tag = "Ok"
        /\ net.result.text = ParentLines \o DirLines \o << <<>> >> \o FileLines

\* C32: the listing of a directory named with a trailing slash is gemtext
\* with status Ok: the parent link if the directory has a parent, one link
\* line per subdirectory in lexicographic order, each name with a slash
\* after it, a blank line if there is any subdirectory, one link line per
\* regular file in lexicographic order; every space of a name is written %20.
C32_Listing ==
    DirListed =>
        /\ net.result.tag = "Ok"
        /\ net.result.status = "Ok"
        /\ net.result.ctype = "text/gemini"
        /\ net.result.text =
              ParentLines \o DirLines
              \o (IF net.entry.dirs # {} THEN << <<>> >> ELSE <<>>) \o FileLines
        /\ \A k \in 1..Len(net.result.text) :
              \A j \in 4..Len(net.result.text[k]) : net.result.text[k][j] # " "

\* The listing of /d/ with two subdirectories and a file.
C32_Witness ==
    /\ DirListed
    /\ net.loc = <<"f", "i", "l", "e", ":", "/", "/", "/", "d", "/">>
    /\ net.result.text =
          << <<"=", ">", " ", ".", ".", "/">>,
             <<"=", ">", " ", "a", "%", "2", "0", "b", "/">>,
             <<"=", ">", " ", "d", "/">>,
             <<>>,
             <<"=", ">", " ", "a", ":", "b">> >>

\* The run was for a path that is a regular file.
RegularFile == to_file_path_ok(net.url) /\ net.entry.kind = "File"

\* The file may be read: it is not over 30 MiB and its guessed type is text.
Readable(entry) ==
    /\ entry.size <= 30 * 1024 * 1024
    /\ entry.guess \in {"text/plain"}

\* C33: the content of a regular file is read only when its size is at most
\* 30 MiB and the type guessed for it is a text type; a file over 30 MiB, or
\* one whose guessed type is missing or not text, ends in an error with
\* nothing of its content read.
C33_ReadOnlyIfSmallText ==
    RegularFile =>
        /\ net.content_read => Readable(net.entry)
        /\ (net.pc = "done" /\ ~Readable(net.entry)) =>
              /\ net.result.tag = "Err"
              /\ ~net.content_read
        /\ (net.pc = "done" /\ Readable(net.entry)) => net.content_read

\* A file of exactly 30 MiB with a text type was read and returned.
C33_Witness ==
    /\ RegularFile
    /\ net.pc = "done"
    /\ net.entry.size = 30 * 1024 * 1024
    /\ net.content_read
    /\ net.result.tag = "Ok"

(***************************************************************************)
(* MultiLoader::fetch, the dispatch of a URL string to the scheme loaders  *)
(* (browser/network/mod.rs).                                               *)
(***************************************************************************)
HTTP_SCHEMES == { <<"h", "t", "t", "p">>, <<"h", "t", "t", "p", "s">> }
GEMINI_SCHEME == <<"g", "e", "m", "i", "n", "i">>

\* The loader for a scheme, by exact match; "none" when no loader has it.
scheme_loader(scheme) ==
    CASE scheme = FILE_SCHEME -> "FileLoader"
      [] scheme \in HTTP_SCHEMES -> "HttpLoader"
      [] scheme = GEMINI_SCHEME -> "GeminiLoader"
      [] OTHER -> "none"

\* MultiLoader::fetch that hands a string that is no URL to the file loader.
MultiLoader_fetch_path_fallback(url) ==
    IF ~Url_parse(url).ok THEN [invoked |-> "FileLoader", result |-> NoResult]
    ELSE IF scheme_loader(Url_parse(url).url.scheme) = "none"
    THEN [invoked |-> "none", result |-> Err("UnsupportedUrlScheme")]
    ELSE [invoked |-> scheme_loader(Url_parse(url).url.scheme), result |-> NoResult]

\* MultiLoader::fetch: the loader whose fetch is invoked, or the error the
\* handle completes with at once.
MultiLoader_fetch(url) ==
    IF ~Url_parse(url).ok THEN [invoked |-> "none", result |-> Err("InvalidUrl")]
    ELSE IF scheme_loader(Url_parse(url).url.scheme) = "none"
    THEN [invoked |-> "none", result |-> Err("UnsupportedUrlScheme")]
    ELSE [invoked |-> scheme_loader(Url_parse(url).url.scheme), result |-> NoResult]

\* The strings fetched: a beginning that is or is not a scheme, and a rest.
UrlPrefixes ==
    { <<"f", "i", "l", "e", ":", "/", "/">>, <<"h", "t", "t", "p", ":", "/", "/">>, <<"h", "t", "t", "p", "s", ":", "/", "/">>, <<"g", "e", "m", "i", "n", "i", ":", "/", "/">>, <<"f", "t", "p", ":", "/", "/">>, <<>>, <<"/", "/">>, <<"1", "x", ":", "/", "/">>, <<"a", " ", "b", ":", "/", "/">> }
UrlRests == { <<"h", "/">>, <<"h", "/", "a", " ", "b">>, <<"/", "d">>, <<"/", "d", "/">>, <<"h">> }
FetchedStrings == { p \o r : p \in UrlPrefixes, r \in UrlRests }

\* What a scheme loader's task ends with, once it has done its I/O.
LoaderResults == { Err("Unknown"), [NoResult EXCEPT !.tag = "Ok"] }

InitMulti ==
    /\ TabDefault
    /\ gem = Idle
    /\ tree = Idle
    /\ net \in {[pc |-> "fetch", loc |-> loc, invoked |-> "none", io |-> FALSE,
                 result |-> NoResult] : loc \in FetchedStrings}

\* Tab::load_url's self.loader.fetch(&url).
MultiFetch ==
    /\ net.pc = "fetch"
    /\ net' = [net EXCEPT !.pc = IF MultiLoader_fetch(net.loc).invoked = "none"
                                 THEN "done" ELSE "loader",
                          !.invoked = MultiLoader_fetch(net.loc).invoked,
                          !.result = MultiLoader_fetch(net.loc).result]
    /\ UNCHANGED <<location, history, forward_history, document, loading, tasks,
                   doc_task, lastNav, lastOp, gem, tree>>

\* The invoked loader's task goes to the network or to the file system and ends.
LoaderRun(r) ==
    /\ net.pc = "loader"
    /\ net' = [net EXCEPT !.pc = "done", !.io = TRUE, !.result = r]
    /\ UNCHANGED <<location, history, forward_history, document, loading, tasks,
                   doc_task, lastNav, lastOp, gem, tree>>

NextMulti == MultiFetch \/ \E r \in LoaderResults : LoaderRun(r)

SpecMulti == InitMulti /\ [][NextMulti]_vars

\* C20: fetching a string that does not parse as a URL completes with
\* InvalidUrl, invokes no scheme loader and causes no network or file-system
\* activity.
C20_InvalidUrlNoDispatch ==
    ~Url_parse(net.loc).ok =>
        /\ net.invoked = "none"
        /\ ~net.io
        /\ net.pc \in {"fetch", "done"}
        /\ net.pc = "fetch" => ENABLED MultiFetch
        /\ net.pc = "done" => net.result = Err("InvalidUrl")

\* The fetch of "/d/" has completed with InvalidUrl.
C20_Witness ==
    /\ net.pc = "done"
    /\ net.loc = <<"/", "d", "/">>
    /\ net.result = Err("InvalidUrl")
    /\ net.invoked = "none"

(***************************************************************************)
(* Properties of the pages rendered for the outputs of a load.             *)
(***************************************************************************)
\* The tabs the polling tab is compared with: the same tab in every other
\* navigation state (location, back history, forward history).
Histories == {<<>>, <<"gemini://a/">>, <<"file:///b c", ABOUT.url>>}
OtherTabs ==
    {[Tab EXCEPT !.location = l, !.history = h, !.forward_history = f] :
        l \in NavUrls \cup {""}, h \in Histories, f \in Histories}

\* The step is a poll that takes the finished load and finds the Error err.
PollsErr(err) ==
    /\ loading # 0
    /\ is_finished(tasks, loading)
    /\ tasks[loading].result.tag = "Err"
    /\ tasks[loading].result.err = err
    /\ loading' = 0
    /\ lastOp' = "check_tasks"

PollsLoaded(r) ==
    /\ loading # 0
    /\ is_finished(tasks, loading)
    /\ tasks[loading].result = r
    /\ loading' = 0
    /\ lastOp' = "check_tasks"

\* The pieces a document's text is made of.
Pieces(doc) == {doc.text[k] : k \in 1..Len(doc.text)}

\* The text handed on for a body: the text itself, or the stand-in for bytes.
BodyPieces == {"{body}", "binary data"}

\* The poll of the same tab had the load ended with r.
PollOf(r) == check_tasks([Tab EXCEPT !.tasks[loading].result = r])

\* C23: a completed load whose status is not successful displays a generic
\* status page built from the status alone, with no part of the body handed
\* to a parser, for an HTTP status and for every file status but
\* DirNeedsSlash; a DirNeedsSlash load displays what the same load with a
\* successful status displays, its body for a text content type.
C23_StatusPage ==
    [][\A r \in HttpResults \cup FileResults :
          (PollsLoaded(r) /\ ~Status_ok(r)) =>
             IF r.status = "DirNeedsSlash"
             THEN /\ document' = PollOf([r EXCEPT !.status = "Ok"]).document
                  /\ (r.ctype = "text/gemini" /\ r.body = "Text")
                        => document' = [widget |-> "GemtextWidget", parser |-> "gemtext",
                                        text |-> <<"{body}">>]
             ELSE /\ document'.widget = "GemtextWidget"
                  /\ document'.parser = "gemtext"
                  /\ Pieces(document') \cap BodyPieces = {}
                  /\ document'.text[1] = IF r.status = "HttpStatus" THEN "## HTTP " ELSE "## "
                  /\ document'.text[2] = IF r.status = "HttpStatus" THEN ToString(r.code)
                                         ELSE r.status]_vars

\* A poll has displayed the status page of a load that ended with NotFound.
C23_Witness ==
    /\ lastOp = "check_tasks"
    /\ doc_task # 0
    /\ document = [widget |-> "GemtextWidget", parser |-> "gemtext",
                   text |-> <<"## ", "NotFound">>]

\* The text of a body as the parsers receive it.
BodyText(r) == IF r.body = "Bytes" THEN <<"binary data">> ELSE <<"{body}">>

\* C24: a completed load that passes the status check displays a document
\* chosen by its content type: none, or a text type other than the three
\* below, gives the body as plain lines; a type that is not text gives the
\* unsupported-content-type page; text/gemini gives the body parsed as
\* gemtext; text/html the body through the HTML bridge and the tree builder;
\* text/markdown the body through the tree builder.
C24_ContentDispatch ==
    [][\A r \in HttpResults \cup FileResults :
          (PollsLoaded(r) /\ (Status_ok(r) \/ r.status = "DirNeedsSlash")) =>
             LET essence == IF r.ctype = "None" THEN "None" ELSE essence_str(r.ctype)
             IN  CASE r.ctype = "None" ->
                        document' = [widget |-> "GemtextWidget", parser |-> "lines",
                                     text |-> BodyText(r)]
                   [] r.ctype = "image/png" ->
                        /\ document'.widget = "GemtextWidget"
                        /\ document'.parser = "gemtext"
                        /\ document'.text[1] = "## Unsupported Content-Type\n\n"
                        /\ Pieces(document') \cap BodyPieces = {}
                   [] essence = "text/gemini" ->
                        document' = [widget |-> "GemtextWidget", parser |-> "gemtext",
                                     text |-> BodyText(r)]
                   [] essence = "text/html" ->
                        document' = [widget |-> "MarkdownWidget", parser |-> "for_html",
                                     text |-> BodyText(r)]
                   [] essence = "text/markdown" ->
                        document' = [widget |-> "MarkdownWidget", parser |-> "for_md",
                                     text |-> BodyText(r)]
                   [] OTHER ->
                        document' = [widget |-> "GemtextWidget", parser |-> "lines",
                                     text |-> BodyText(r)]]_vars

\* A poll has displayed a body as plain lines.
C24_Witness ==
    /\ lastOp = "check_tasks"
    /\ doc_task # 0
    /\ document = [widget |-> "GemtextWidget", parser |-> "lines", text |-> <<"{body}">>]

(***************************************************************************)
(* The page of each Error, by the loader that returns it.                  *)
(***************************************************************************)

\* The Error HttpLoader returns for a success response whose content-type is
\* not one it asked for.
HttpTypeErrors ==
    {http_check(sv).err : sv \in {s \in Servers : /\ HttpStatus_ok(s.code)
                                                  /\ s.header \in OtherTypeHeaders}}

\* The Error FileLoader returns for a file whose guessed type is not text.
FileTypeErrors ==
    {load_file_check(e).err :
        e \in {f \in FsEntries : /\ f.kind = "File"
                                 /\ f.guess # "None"
                                 /\ type_(f.guess) # "text"}}

\* The document is a page with a link that opens loc outside the browser.
OffersOpenLink(doc, loc) ==
    /\ doc.widget = "GemtextWidget"
    /\ \E k \in 1..(Len(doc.text) - 1) :
          /\ doc.text[k] = "=> browser+"
          /\ doc.text[k + 1] = loc

TooBigPage(doc, err) ==
    /\ doc.widget = "GemtextWidget"
    /\ doc.text = <<"## Response too big\n\n", "{e:?}", err>>

GenericPage(doc, err) ==
    /\ doc.widget = "GemtextWidget"
    /\ doc.text = <<"{err:#?}", err>>

Navigates ==
    \/ \E url \in NavUrls : GotoUrl(url)
    \/ \E href \in Hrefs : ~is_browser_link(href) /\ LinkClicked(href)
    \/ Len(history) >= 2 /\ GoBack
    \/ forward_history # <<>> /\ GoForward
    \/ history # <<>> /\ Reload

\* C35: after every operation that navigates, the location is the last entry
\* of back-history, and a fetch the operation started is for exactly that
\* URL and is the load in flight.
C35_LocationIsHistoryTop ==
    [][Navigates =>
          /\ history' # <<>>
          /\ location' = history'[Len(history')]
          /\ Len(tasks') > Len(tasks) =>
                /\ Len(tasks') = Len(tasks) + 1
                /\ loading' = Len(tasks')
                /\ tasks'[loading'].url = location'
                /\ tasks'[loading'].state = "running"]_vars

\* go_forward has made the third entry of back-history the location and
\* fetches it.
C35_Witness ==
    /\ lastOp = "go_forward"
    /\ Len(history) = 3
    /\ location = history[3]
    /\ loading # 0
    /\ tasks[loading].url = history[3]

\* C36: reload leaves forward-history as it was, in every state of the tab.
C36_ReloadKeepsForward ==
    [][Reload => forward_history' = forward_history]_vars

RECURSIVE Reverse(_)
Reverse(s) == IF s = <<>> THEN <<>> ELSE Append(Reverse(Tail(s)), Head(s))

\* Back-history followed by forward-history from its top down: the pages in
\* the order they were visited.
Trail(t) == t.history \o Reverse(t.forward_history)

\* C37: go_forward undoes go_back on both histories when back-history has
\* two entries or more, go_back undoes go_forward when forward-history is not
\* empty, and each of the two keeps back-history followed by the reversed
\* forward-history as it was.
C37_BackForwardInverse ==
    [][/\ (Len(history) >= 2 /\ GoBack) =>
             /\ go_forward(Tab').history = history
             /\ go_forward(Tab').forward_history = forward_history
             /\ Trail(Tab') = Trail(Tab)
       /\ (forward_history # <<>> /\ GoForward) =>
             /\ go_back(Tab').history = history
             /\ go_back(Tab').forward_history = forward_history
             /\ Trail(Tab') = Trail(Tab)]_vars

\* go_back has acted twice from three entries: forward-history holds two
\* pages above the one back entry.
C37_Witness ==
    /\ lastOp = "go_back"
    /\ Len(history) = 1
    /\ Len(forward_history) = 2

(***************************************************************************)
(* Delivery of a finished load.                                            *)
(***************************************************************************)
\* The load of task id is in flight and the task has finished.
FinishedInFlight(id) ==
    /\ id <= Len(tasks)
    /\ loading = id
    /\ is_finished(tasks, id)

\* Nothing is in flight and the document displayed was produced from the
\* output of task id, which has been taken.
Delivered(id) ==
    /\ id <= Len(tasks)
    /\ loading = 0
    /\ tasks[id].state = "joined"
    /\ doc_task = id
    /\ document # NoDoc

\* A later navigation has dropped the handle of task id.
Superseded(id) ==
    /\ id <= Len(tasks)
    /\ tasks[id].state = "dropped"

\* C40: with polls that keep occurring, once the task of the load in flight
\* has finished, the tab comes to have no load in flight and to display a
\* document produced from that task's output, unless a further navigation
\* has superseded the load before: no load stays in flight forever after its
\* task has finished.
C40_FinishedLoadDelivered ==
    \A id \in 1..MaxTasks : FinishedInFlight(id) ~> (Delivered(id) \/ Superseded(id))

\* A poll has delivered the output of the third task, the one the most
\* recent navigation started, after two earlier loads.
C40_Witness ==
    /\ lastOp = "check_tasks"
    /\ Delivered(3)
    /\ lastNav = 3

====
